---- MODULE Spec2Model ----
(***************************************************************************)
(* Model of the PDF layout core of SIGGRAPH-2025-Scout:                    *)
(*   - printMarkdownContent (src/utils/pdfGenerator.ts:5-99), the markdown *)
(*     flow renderer, stepped one input line at a time (SpecMd);           *)
(*   - generateResearchPDF (src/utils/pdfGenerator.ts:239-504), the        *)
(*     journal export, with its caller handleDownloadPDF (Spec).           *)
(* Lengths are in half units (U = 2 per jsPDF unit) because the code block *)
(* line height is 4.5.  Strings are sequences of one-character strings.    *)
(***************************************************************************)
EXTENDS Integers, Sequences, FiniteSets, TLC

VARIABLES
    \* ---- printMarkdownContent, stepped (SpecMd)
    mdPc,        \* "ready" | "loop" | "returned"
    mdText,      \* the text argument
    mdStartY,    \* the startY argument
    mdLines,     \* text.split('\n')
    mdK,         \* number of lines the forEach has processed
    mdCursorY,   \* its local cursorY
    inCodeBlock, \* its code-block flag
    mdRet,       \* the returned cursor (0 before the return)
    \* ---- generateResearchPDF and its caller (Spec)
    pc,            \* position in generateResearchPDF / handleDownloadPDF
    papers,        \* the papers argument
    onProgress,    \* whether a progress callback was passed
    caller,        \* "none" | "app" (handleDownloadPDF) | "direct"
    i,             \* the loop index of "Process Papers"
    doc,           \* the jsPDF document (also the renderer's doc argument)
    cursorY,       \* the layout cursor
    tocPageNumber, \* index of the reserved contents page
    tocEntries,    \* one entry per paper section begun
    tocJ,          \* contents entries written by the backfill
    progressCalls, \* the calls onProgress(current, total) made so far
    exportStatus,  \* App state: 'idle' | 'loading' | 'success' | 'error'
    pdfProgress,   \* App state: <<current, total>> or <<>> (undefined)
    sumK,          \* summary lines the summaryLines.forEach has drawn
    saved,         \* whether doc.save has run
    \* ---- App with its export buttons (SpecApp)
    exports,       \* the generateResearchPDF calls made, each with its position
    idleTimers,    \* pending setTimeout(() => setExportStatus('idle'), 4000)
    loadingDisables, \* whether Button disables itself while isLoading is set
    \* ---- DOI link targets (SpecDoi)
    doiIn,         \* the DOI of the paper shown
    doiOut,        \* the link target each place has computed for it
    \* ---- discoverPapers (SpecDiscover)
    respText,      \* response.text of the model's answer
    discovered,    \* whether discoverPapers has returned, and the papers it returned
    \* ---- printMarkdownContent called twice (SpecMdTwice)
    mdFirst,       \* what the first of two calls produced (<<>> before)
    \* ---- App: views, deep dives and session files (SpecSession)
    view,          \* 'DASHBOARD' | 'DETAIL'
    selectedPaper, \* <<>> (null) or <<the paper>>
    deepDives,     \* the papers of the handleDeepDive calls awaiting their report
    reading,       \* the files chosen whose FileReader has not called onload yet
    downloads,     \* the session files Save Session has written
    task,          \* the continuation that is running, with its set-state calls left
    \* ---- App: searching and the search history (SpecSearch, SpecHistory)
    searchQuery,          \* the text of the search box
    debouncedSearchQuery, \* useDebounce(searchQuery, 500)
    debounceTimer,        \* <<>> or <<the value the pending 500 ms timer will set>>
    error,                \* Null or the message shown
    isSearching,
    searches,             \* performSearch calls awaiting discoverPapers, by kind
    effectDeps,           \* <<debouncedSearchQuery, error>> when the clear-errors effect last ran
    recentSearches,
    storedHistory,        \* localStorage item 'recentSearches'
    lastAdded             \* the last addToHistory call: <<>> or <<[query, removed since]>>

mdVars == <<mdPc, mdText, mdStartY, mdLines, mdK, mdCursorY, inCodeBlock, mdRet>>
exVars == <<pc, papers, onProgress, caller, i, doc, cursorY, tocPageNumber,
            tocEntries, tocJ, progressCalls, exportStatus, pdfProgress, sumK, saved>>
discVars == <<respText, discovered>>
sessVars == <<view, selectedPaper, deepDives, reading, downloads, task>>
searchVars == <<searchQuery, debouncedSearchQuery, debounceTimer, error, isSearching,
                searches, effectDeps>>
histVars == <<recentSearches, storedHistory, lastAdded>>
restVars == <<discVars, mdFirst, sessVars, searchVars, histVars>>
uiVars == <<exports, idleTimers, loadingDisables, doiIn, doiOut, restVars>>
vars == <<mdVars, exVars, uiVars>>

\* ------------------------------------------------------------------ bounds
MaxLines == 3        \* lines of an input text of the renderer
WrapChars == 3       \* characters of analysis text on one physical line
TitleChars == 50     \* characters of a title on one physical line
CiteChars == 2       \* characters of a citation on one physical line
SummaryChars == 2    \* characters of a summary on one physical line
MaxPapers == 3       \* papers of an exported list
LongLines == 30      \* lines of a text that spills onto a second page
TocFill == 16        \* papers (with DOI) that overflow the contents page
MaxPick == 3         \* positions of the list whose paper the detail view can show
MaxDoiLen == 5       \* characters of a DOI string

\* --------------------------------------------------------------- constants
U == 2                                   \* half units per jsPDF unit
pageHeight == 280 * U
margin == 20 * U
BottomMargin == 20 * U
CodeLineHeight == (45 * U) \div 10       \* 4.5
BodyLineHeight == 6 * U
HeaderLineHeight == 7 * U

\* ------------------------------------------------------------ string helpers
\* the backtick character (not writable inside a TLA+ string)
BT == "BT"
WS == {" ", "\t"}
Digits == {"0", "1", "2", "3", "4", "5", "6", "7", "8", "9"}

RECURSIVE trimStart(_)
trimStart(s) == IF s # <<>> /\ Head(s) \in WS THEN trimStart(Tail(s)) ELSE s

RECURSIVE trimEnd(_)
trimEnd(s) ==
    IF s # <<>> /\ s[Len(s)] \in WS THEN trimEnd(SubSeq(s, 1, Len(s) - 1)) ELSE s

trim(s) == trimEnd(trimStart(s))

startsWith(s, p) == Len(s) >= Len(p) /\ SubSeq(s, 1, Len(p)) = p

\* faulty variant of arrayJoin: a word in the place of an empty array
arrayJoinOrNone(arr, sep) ==
    IF arr = <<>> THEN <<"None">>
    ELSE [k \in 1..(2 * Len(arr) - 1) |-> IF k % 2 = 1 THEN arr[(k + 1) \div 2] ELSE sep]

\* Array.prototype.join (lines 191, 403): the elements with the separator
\* between them, nothing for the empty array
arrayJoin(arr, sep) ==
    [k \in 1..(IF arr = <<>> THEN 0 ELSE 2 * Len(arr) - 1) |->
        IF k % 2 = 1 THEN arr[(k + 1) \div 2] ELSE sep]

\* text.split('\n'): the empty text is one empty line
split(s) ==
    LET nl == {k \in 1..Len(s) : s[k] = "\n"}
        \* the position of the j-th line break; 0 and Len(s) + 1 bracket the text
        brk(j) == IF j = 0 THEN 0
                  ELSE IF j > Cardinality(nl) THEN Len(s) + 1
                  ELSE CHOOSE q \in nl : Cardinality({r \in nl : r < q}) = j - 1
    IN  [j \in 1..(Cardinality(nl) + 1) |-> SubSeq(s, brk(j - 1) + 1, brk(j) - 1)]

RECURSIVE join(_)
join(ls) ==
    IF Len(ls) = 0 THEN <<>>
    ELSE IF Len(ls) = 1 THEN ls[1]
    ELSE ls[1] \o <<"\n">> \o join(Tail(ls))

\* line.replace(/\t/g, '  ')
RECURSIVE replaceTabs(_)
replaceTabs(s) ==
    IF s = <<>> THEN <<>>
    ELSE IF Head(s) = "\t" THEN <<" ", " ">> \o replaceTabs(Tail(s))
    ELSE <<Head(s)>> \o replaceTabs(Tail(s))

\* the number of leading '#', at most n
RECURSIVE leadingHashes(_, _)
leadingHashes(s, n) ==
    IF n > 0 /\ s # <<>> /\ Head(s) = "#" THEN 1 + leadingHashes(Tail(s), n - 1) ELSE 0

\* trimmed.replace(/^#{1,6}\s*/, '')
stripHeaderMarker(s) ==
    LET h == leadingHashes(s, 6)
    IN  IF h = 0 THEN s ELSE trimStart(SubSeq(s, h + 1, Len(s)))

\* .replace(/\*\*/g, '')
RECURSIVE stripBold(_)
stripBold(s) ==
    IF s = <<>> THEN <<>>
    ELSE IF startsWith(s, <<"*", "*">>) THEN stripBold(SubSeq(s, 3, Len(s)))
    ELSE <<Head(s)>> \o stripBold(Tail(s))

\* .replace(/BT/g, ''), BT the backtick
RECURSIVE stripBackticks(_)
stripBackticks(s) ==
    IF s = <<>> THEN <<>>
    ELSE IF Head(s) = BT THEN stripBackticks(Tail(s))
    ELSE <<Head(s)>> \o stripBackticks(Tail(s))

\* the least index >= from at which s holds c, or 0
RECURSIVE indexOf(_, _, _)
indexOf(s, c, from) ==
    IF from > Len(s) THEN 0
    ELSE IF s[from] = c THEN from
    ELSE indexOf(s, c, from + 1)

\* .replace(/\[([^\]]+)\]\([^)]+\)/g, '$1'): a match at the head of s is
\* '[', one or more non-']', "](", one or more non-')', ')'
RECURSIVE stripLinks(_)
stripLinks(s) ==
    IF s = <<>> THEN <<>>
    ELSE
      LET q == IF Head(s) = "[" THEN indexOf(s, "]", 2) ELSE 0
          r == IF q > 2 /\ q < Len(s) /\ s[q + 1] = "(" THEN indexOf(s, ")", q + 2) ELSE 0
      IN  IF r > q + 2
          THEN SubSeq(s, 2, q - 1) \o stripLinks(SubSeq(s, r + 1, Len(s)))
          ELSE <<Head(s)>> \o stripLinks(Tail(s))

\* /^\d+\.\s/.test(trimmed)
RECURSIVE afterDigits(_)
afterDigits(s) == IF s # <<>> /\ Head(s) \in Digits THEN afterDigits(Tail(s)) ELSE s

isOrdinal(s) ==
    LET t == afterDigits(s)
    IN  /\ Len(t) < Len(s)
        /\ Len(t) >= 2
        /\ t[1] = "."
        /\ t[2] \in WS

\* ------------------------------------------------------------------- jsPDF
HelvNormal == <<"helvetica", "normal">>
HelvBold == <<"helvetica", "bold">>
HelvItalic == <<"helvetica", "italic">>
CourierNormal == <<"courier", "normal">>
BodyColor == <<20, 20, 20>>
HeaderColor == <<0, 51, 102>>
CodeColor == <<40, 40, 40>>

\* new jsPDF(): one page, current; default font, size and text colour
newDoc ==
    [numPages |-> 1, page |-> 1, font |-> HelvNormal, size |-> 16,
     color |-> <<0, 0, 0>>, ops |-> <<>>]

\* doc.addPage(): appends a page at the end and makes it current
addPage(d) == [d EXCEPT !.numPages = @ + 1, !.page = d.numPages + 1]

setFont(d, f) == [d EXCEPT !.font = f]
setFontSize(d, n) == [d EXCEPT !.size = n]
setTextColor(d, c) == [d EXCEPT !.color = c]

\* doc.text(txt, x, y): drawn on the current page in the current style
text(d, kind, txt, ref, y) ==
    [d EXCEPT !.ops = Append(@,
        [op |-> kind, txt |-> txt, ref |-> ref, page |-> d.page, y |-> y,
         h |-> 0, font |-> d.font, size |-> d.size, color |-> d.color])]

\* doc.rect(x, y, w, h, 'F')
rect(d, kind, y, h) ==
    [d EXCEPT !.ops = Append(@,
        [op |-> kind, txt |-> <<>>, ref |-> 0, page |-> d.page, y |-> y,
         h |-> h, font |-> d.font, size |-> d.size, color |-> d.color])]

\* doc.splitTextToSize(s, width): s cut into physical lines of w characters,
\* the width in characters standing for maxLineWidth at the current font;
\* the empty string is one empty physical line
splitTextToSize(s, w) ==
    IF Len(s) = 0 THEN <<s>>
    ELSE [k \in 1..((Len(s) + w - 1) \div w) |->
             SubSeq(s, (k - 1) * w + 1, IF k * w < Len(s) THEN k * w ELSE Len(s))]

\* ---------------------------------------------------- printMarkdownContent
\* faulty variant of needsBreak: the bottom margin forgotten
needsBreakAtPageEnd(y) == y > pageHeight

\* if (cursorY > pageHeight - 20)
needsBreak(y) == y > pageHeight - BottomMargin

\* if (cursorY > pageHeight - 20) { doc.addPage(); cursorY = margin; }
breakIfNeeded(st) ==
    IF needsBreak(st.cursorY)
    THEN [st EXCEPT !.doc = addPage(@), !.cursorY = margin]
    ELSE st

\* faulty variant of isFence: only a line that is exactly the marker toggles
isFenceExact(trimmed) == trimmed = <<BT, BT, BT>>

\* faulty variant of isFence: a single backtick toggles
isFenceSingle(trimmed) == startsWith(trimmed, <<BT>>)

\* trimmed.startsWith(BT BT BT)
isFence(trimmed) == startsWith(trimmed, <<BT, BT, BT>>)

\* trimmed.startsWith('##')
isHeaderLine(trimmed) == startsWith(trimmed, <<"#", "#">>)

\* trimmed.startsWith('**') || /^\d+\.\s/.test(trimmed)
isBoldLine(trimmed) == startsWith(trimmed, <<"*", "*">>) \/ isOrdinal(trimmed)

\* splitCode.forEach: break check, background band, text, cursorY += 4.5
RECURSIVE drawCode(_, _)
drawCode(st, chunks) ==
    IF chunks = <<>> THEN st
    ELSE
      LET s1 == breakIfNeeded(st)
          d1 == rect(s1.doc, "codeBand", s1.cursorY - 3 * U, CodeLineHeight)
          d2 == text(d1, "code", Head(chunks), 0, s1.cursorY)
      IN  drawCode([s1 EXCEPT !.doc = d2, !.cursorY = @ + CodeLineHeight], Tail(chunks))

\* splitText.forEach: break check, text, cursorY += isHeader ? 7 : 6
RECURSIVE drawText(_, _, _)
drawText(st, chunks, isHeader) ==
    IF chunks = <<>> THEN st
    ELSE
      LET s1 == breakIfNeeded(st)
          d1 == text(s1.doc, IF isHeader THEN "header" ELSE "body", Head(chunks), 0, s1.cursorY)
          step == IF isHeader THEN HeaderLineHeight ELSE BodyLineHeight
      IN  drawText([s1 EXCEPT !.doc = d1, !.cursorY = @ + step], Tail(chunks), isHeader)

\* faulty variant of blankGap: a blank line advances nothing
blankGapNone == 0 * U

\* line 56: cursorY += 4 for a blank line
blankGap == 4 * U

\* the "Reset font if changed" block after a header line
resetAfterHeader(d) == setTextColor(setFontSize(d, 11), BodyColor)

\* the inCodeBlock branch of the forEach callback
codeLine(st, line) ==
    LET d1 == setTextColor(setFontSize(setFont(st.doc, CourierNormal), 9), CodeColor)
    IN  drawCode([st EXCEPT !.doc = d1], splitTextToSize(replaceTabs(line), WrapChars))

\* the else branch of the forEach callback
bodyLine(st, trimmed) ==
    LET d1 == setTextColor(setFontSize(setFont(st.doc, HelvNormal), 11), BodyColor)
        s1 == [st EXCEPT !.doc = d1]
    IN  IF trimmed = <<>> THEN [s1 EXCEPT !.cursorY = @ + blankGap]
        ELSE
          LET isHeader == isHeaderLine(trimmed)
              d2 == IF isHeader
                    THEN setTextColor(setFontSize(setFont(d1, HelvBold), 13), HeaderColor)
                    ELSE IF isBoldLine(trimmed) THEN setFont(d1, HelvBold)
                    ELSE d1
              s2 == IF isHeader
                    THEN [s1 EXCEPT !.doc = d2, !.cursorY = @ + 4 * U]
                    ELSE [s1 EXCEPT !.doc = d2]
              displayLine ==
                  stripLinks(stripBackticks(stripBold(
                      IF isHeader THEN stripHeaderMarker(trimmed) ELSE trimmed)))
              s3 == drawText(s2, splitTextToSize(displayLine, WrapChars), isHeader)
          IN  IF isHeader THEN [s3 EXCEPT !.doc = resetAfterHeader(@)] ELSE s3

\* lines 20-95: the forEach callback after its page-break check
mdLineBody(s1, line) ==
    LET trimmed == trim(line)
    IN  IF isFence(trimmed)
        THEN [s1 EXCEPT !.inCodeBlock = ~@, !.cursorY = @ + 2 * U]
        ELSE IF s1.inCodeBlock THEN codeLine(s1, line)
        ELSE bodyLine(s1, trimmed)

\* lines 13-96: one call of the lines.forEach callback
mdLine(st, line) ==
    IF needsBreak(st.cursorY)
    THEN mdLineBody([st EXCEPT !.doc = addPage(@), !.cursorY = margin], line)
    ELSE mdLineBody(st, line)

\* faulty variant of mdEnter: the code-block flag kept from an earlier call
\* (a flag declared outside the function)
mdEnterStaleFlag(d, startY) ==
    [doc |-> setTextColor(setFontSize(d, 11), BodyColor),
     cursorY |-> startY, inCodeBlock |-> inCodeBlock]

\* lines 6-11, the state before the forEach: cursorY = startY,
\* inCodeBlock = false, doc.setFontSize(11), doc.setTextColor(20, 20, 20)
mdEnter(d, startY) ==
    [doc |-> setTextColor(setFontSize(d, 11), BodyColor),
     cursorY |-> startY, inCodeBlock |-> FALSE]

\* ------------------------------------------------- inputs of the renderer
LineSet ==
    { <<>>,
      <<"a">>,
      <<"#", " ", "a">>,
      <<"#", "#", " ", "a", "b", "c", "d", "e">>,
      <<"#", "#", "#", "#", "#", "#", "#", "a">>,
      <<BT, BT, BT>>,
      <<" ", BT, BT, BT, "j", "s">>,
      <<"a", BT, BT, BT, "b">>,
      <<BT, "a", BT>>,
      <<"1", ".", " ", "a", "b", "c">>,
      <<"\t", "a">>,
      <<"*", "*", "[", "a", "]", "(", "u", ")">> }

RECURSIVE SeqsUpTo(_, _)
SeqsUpTo(S, n) ==
    IF n = 0 THEN {<<>>}
    ELSE LET prev == SeqsUpTo(S, n - 1)
         IN  prev \cup {Append(p, x) : p \in {q \in prev : Len(q) = n - 1}, x \in S}

\* every text of 1..MaxLines lines; the empty text is the one line <<>>
Texts == {join(ls) : ls \in SeqsUpTo(LineSet, MaxLines) \ {<<>>}}

\* starting cursors: top of a page, and around the break threshold of 260
StartYs == {20 * U, 258 * U, 262 * U}

\* ------------------------------------------------------ generateResearchPDF
lineHeight == 7 * U
Grey150 == <<150, 150, 150>>
LinkBlue == <<0, 80, 200>>

\* faulty variant of checkPageBreak: the cursor reset with no page appended
checkPageBreakNoPage(st, heightNeeded) ==
    IF st.cursorY + heightNeeded >= pageHeight THEN [st EXCEPT !.cursorY = margin] ELSE st

\* lines 250-255: checkPageBreak(heightNeeded)
checkPageBreak(st, heightNeeded) ==
    IF st.cursorY + heightNeeded >= pageHeight
    THEN [st EXCEPT !.doc = addPage(@), !.cursorY = margin]
    ELSE st

\* draw a text element of paper section idx at the cursor
draw(st, kind, txt, idx) == [st EXCEPT !.doc = text(@, kind, txt, idx, st.cursorY)]
advance(st, dy) == [st EXCEPT !.cursorY = @ + dy]
style(st, f, n, c) == [st EXCEPT !.doc = setTextColor(setFontSize(setFont(@, f), n), c)]

\* lines 257-295: the title page, cursor starting at 20
titlePage(d) ==
    LET s0 == [doc |-> d, cursorY |-> 20 * U]
        s1 == advance(draw(style(s0, HelvBold, 26, <<20, 20, 40>>), "title", <<"SIGGRAPH 2025">>, 0), 12 * U)
        s2 == advance(draw(style(s1, HelvNormal, 20, <<60, 60, 70>>), "title", <<"Research Journal & Digest">>, 0), 30 * U)
        s3 == advance(draw(style(s2, HelvNormal, 12, <<80, 80, 80>>), "title", <<"Edited and Compiled by:">>, 0), 6 * U)
        s4 == advance(draw(style(draw(style(s3, HelvBold, 12, <<80, 80, 80>>), "title", <<"Kara Rawson">>, 0),
                                 HelvNormal, 12, <<80, 80, 80>>), "title", <<"rawsonkara@gmail.com">>, 0), 15 * U)
        s5 == advance(draw(s4, "title", <<"Published by:">>, 0), 6 * U)
        s6 == advance(draw(style(s5, HelvBold, 12, <<80, 80, 80>>), "title", <<"Cat Game Research 2026">>, 0), 20 * U)
        s7 == draw(style(s6, HelvNormal, 12, <<80, 80, 80>>), "title", <<"Generated on:">>, 0)
        s8 == [s7 EXCEPT !.doc = text(@, "title", <<"Total Papers:">>, 0, s7.cursorY + 7 * U)]
        s9 == advance(s8, 20 * U)
    IN  [s9 EXCEPT !.doc = rect(@, "rule", s9.cursorY, 0)]

\* faulty variant of startPageOf: the page count read before the append
startPageBeforeAppend(d) == d.numPages - 1

\* line 319: const startPage = doc.internal.getNumberOfPages()
startPageOf(d) == d.numPages

\* lines 323-328: the contents entry of a paper
tocEntry(paper, startPage) ==
    [title |-> paper.title, page |-> startPage,
     verification |-> paper.isVerified, doi |-> paper.doi]

\* faulty variant of paperHeader: the paper starts on the current page
paperHeaderNoNewPage(d, paper, idx) ==
    LET s0 == [doc |-> d, cursorY |-> margin]
        s1 == advance(draw(style(s0, s0.doc.font, 10, Grey150), "paperHeader", <<"Paper #">>, idx), 10 * U)
        titleLines == splitTextToSize(paper.title, TitleChars)
        s2 == advance(draw(style(s1, s1.doc.font, 18, HeaderColor), "paperTitle", paper.title, idx),
                      Len(titleLines) * lineHeight + 5 * U)
    IN  advance(draw(style(s2, HelvItalic, 12, <<80, 80, 80>>), "authors", paper.authors, idx),
                lineHeight + 5 * U)

\* lines 316-348 without the tocEntries.push: new page, header id, title, authors
paperHeader(d, paper, idx) ==
    LET s0 == [doc |-> addPage(d), cursorY |-> margin]
        s1 == advance(draw(style(s0, s0.doc.font, 10, Grey150), "paperHeader", <<"Paper #">>, idx), 10 * U)
        titleLines == splitTextToSize(paper.title, TitleChars)
        s2 == advance(draw(style(s1, s1.doc.font, 18, HeaderColor), "paperTitle", paper.title, idx),
                      Len(titleLines) * lineHeight + 5 * U)
    IN  advance(draw(style(s2, HelvItalic, 12, <<80, 80, 80>>), "authors", paper.authors, idx),
                lineHeight + 5 * U)

\* faulty variant of hasCitationBox: the verification alone draws no box
hasCitationBoxCitationOnly(paper) == paper.citation # <<>>

\* line 351: paper.citation || paper.verification?.isVerified
hasCitationBox(paper) == paper.citation # <<>> \/ paper.isVerified

\* line 356: paper.citation || "Citation not generated yet."
citeTextOf(paper) ==
    IF paper.citation # <<>> THEN paper.citation ELSE <<"Citation not generated yet.">>

\* faulty variant of boxHeightOf: the height of a one-line citation for all
boxHeightOneLine(nLines, hasSourceLink) ==
    (16 + 4 + (IF hasSourceLink THEN 10 ELSE 0)) * U

\* faulty variant of boxHeightOf: the base padding of 16 forgotten
boxHeightNoPadding(nLines, hasSourceLink) ==
    (nLines * 4 + (IF hasSourceLink THEN 10 ELSE 0)) * U

\* line 359
boxHeightOf(nLines, hasSourceLink) ==
    (16 + nLines * 4 + (IF hasSourceLink THEN 10 ELSE 0)) * U

\* lines 350-397
citationSection(st, paper, idx) ==
    IF ~hasCitationBox(paper) THEN st
    ELSE
      LET s0 == style(st, HelvNormal, 9, st.doc.color)
          citeText == citeTextOf(paper)
          citeLines == splitTextToSize(citeText, CiteChars)
          hasSourceLink == paper.sourceUrl # <<>>
          boxHeight == boxHeightOf(Len(citeLines), hasSourceLink)
          s1 == checkPageBreak(s0, boxHeight + 5 * U)
          y == s1.cursorY
          d1 == rect(s1.doc, "citeBox", y, boxHeight)
          d2 == text(setTextColor(d1, <<50, 50, 50>>), "citeLabel", <<"CITATION & VERIFICATION">>, idx, y + 6 * U)
          d3 == IF paper.isVerified
                THEN text(setFont(setTextColor(d2, <<0, 120, 0>>), HelvBold), "citeStatus", <<"Verified Source">>, idx, y + 6 * U)
                ELSE text(setFont(setTextColor(d2, <<150, 0, 0>>), HelvBold), "citeStatus", <<"Unverified">>, idx, y + 6 * U)
          d4 == text(setTextColor(setFont(d3, HelvNormal), <<40, 40, 40>>), "citeText", citeText, idx, y + 14 * U)
          d5 == IF hasSourceLink
                THEN text(setFont(setTextColor(d4, LinkBlue), HelvBold), "citeLink", paper.sourceUrl, idx,
                          y + (14 + Len(citeLines) * 4 + 2) * U)
                ELSE d4
      IN  [doc |-> d5, cursorY |-> y + boxHeight + 10 * U]

\* lines 399-415: tag line, summary heading, body style
tagsAndHeading(st, paper, idx) ==
    LET s1 == advance(draw(style(st, HelvNormal, 9, <<100, 100, 100>>), "tags", <<"Tags: ">> \o arrayJoin(paper.tags, ", "), idx),
                      lineHeight + 5 * U)
        s2 == advance(draw(style(s1, HelvBold, 12, <<0, 0, 0>>), "summaryHeading", <<"Abstract / Summary">>, idx),
                      lineHeight)
    IN  style(s2, HelvNormal, 11, s2.doc.color)

\* line 415
summaryLinesOf(paper) == splitTextToSize(paper.summary, SummaryChars)

\* lines 416-420: one call of the summaryLines.forEach callback
summaryLine(st, line, idx) ==
    advance(draw(checkPageBreak(st, lineHeight), "summaryLine", line, idx), lineHeight)

\* lines 425-434: rule and heading of the deep dive
deepDiveHeading(st, idx) ==
    LET s1 == checkPageBreak(st, 20 * U)
        s2 == advance([s1 EXCEPT !.doc = rect(@, "rule", s1.cursorY, 0)], 10 * U)
    IN  advance(draw(style(s2, HelvBold, 14, HeaderColor), "deepHeading", <<"Deep Dive Analysis">>, idx),
                lineHeight + 5 * U)

\* lines 442-446
sourceLink(st, paper, idx) ==
    LET s1 == checkPageBreak(st, 20 * U)
    IN  draw(style(s1, s1.doc.font, 10, <<0, 0, 255>>), "sourceLink", <<"Original Source Link">>, idx)

\* faulty variant of progressArgs: the loop index passed as it is
progressArgsZeroBased(idx0, n) == <<idx0, n>>

\* line 311: the arguments of the progress call of iteration i (0-based)
progressArgs(idx0, n) == <<idx0 + 1, n>>

\* lines 449-460: back to the contents page, heading
tocHeading(d, tocPage) ==
    LET s0 == [doc |-> [d EXCEPT !.page = tocPage], cursorY |-> margin]
        s1 == advance(draw(style(s0, HelvBold, 16, <<0, 0, 0>>), "tocHeading", <<"Table of Contents">>, 0), 15 * U)
    IN  style(s1, HelvNormal, 11, s1.doc.color)

\* faulty variant of tocTitle: a title of exactly 70 characters gets the ellipsis
tocTitleEllipsisAt70(title) ==
    SubSeq(title, 1, IF Len(title) < 70 THEN Len(title) ELSE 70)
        \o (IF Len(title) >= 70 THEN <<"...">> ELSE <<>>)

\* line 471: substring(0, 70) and the ellipsis; the ordinal prefix 'i + 1.'
\* is the ref of the drawn operation
tocTitle(title) ==
    SubSeq(title, 1, IF Len(title) < 70 THEN Len(title) ELSE 70)
        \o (IF Len(title) > 70 THEN <<"...">> ELSE <<>>)

\* line 491
doiUrl(doi) ==
    IF startsWith(doi, <<"h", "t", "t", "p">>) THEN doi ELSE <<"https://doi.org/">> \o doi

\* faulty variant of hasDoi: a DOI line under every entry
hasDoiAlways(entry) == TRUE

\* line 487: if (entry.doi)
hasDoi(entry) == entry.doi # <<>>

\* lines 462-501: one call of the tocEntries.forEach callback, j 1-based;
\* the operation of the DOI line records the url of its link
tocLine(st, entry, j) ==
    LET s0 == IF st.cursorY + 15 * U >= pageHeight
              THEN [st EXCEPT !.doc = addPage(@), !.cursorY = margin]
              ELSE st
        lineText == tocTitle(entry.title) \o (IF entry.verification THEN <<" (Verified)">> ELSE <<>>)
        s1 == draw(style(s0, s0.doc.font, s0.doc.size, HeaderColor), "tocEntry", lineText, j)
        s2 == [s1 EXCEPT !.doc = rect(@, "tocLink", s1.cursorY - 5 * U, 7 * U)]
        s3 == [s2 EXCEPT !.doc = text(setTextColor(@, <<100, 100, 100>>), "tocPage", <<"p.">>, entry.page, s2.cursorY)]
        s4 == IF hasDoi(entry)
              THEN LET a == advance(s3, 5 * U)
                       b == draw(style(a, a.doc.font, 9, LinkBlue), "tocDoi", doiUrl(entry.doi), j)
                   IN  advance(style(b, b.doc.font, 11, HeaderColor), 3 * U)
              ELSE s3
    IN  advance(s4, 8 * U)

\* ------------------------------------------------ generatePaperAnalysisPDF
\* lines 109-114: checkPageBreak(heightNeeded) of the single-paper export
paCheckPageBreak(st, heightNeeded) ==
    IF st.cursorY + heightNeeded >= pageHeight
    THEN [st EXCEPT !.doc = addPage(@), !.cursorY = margin]
    ELSE st

\* lines 102-134: new document, cursor 20, header id, title, authors
paHeader(paper, idx) ==
    LET s0 == [doc |-> newDoc, cursorY |-> 20 * U]
        s1 == advance(draw(style(s0, s0.doc.font, 10, Grey150), "analysisHeader",
                           <<"SIGGRAPH Scout Analysis">>, idx), 10 * U)
        titleLines == splitTextToSize(paper.title, TitleChars)
        s2 == advance(draw(style(s1, s1.doc.font, 18, HeaderColor), "analysisTitle", paper.title, idx),
                      Len(titleLines) * lineHeight + 5 * U)
    IN  advance(draw(style(s2, HelvItalic, 12, <<80, 80, 80>>), "authors", paper.authors, idx),
                lineHeight + 5 * U)

\* line 137: paper.citation || paper.verification?.isVerified
paHasCitationBox(paper) == paper.citation # <<>> \/ paper.isVerified

\* line 142: paper.citation || "Citation not generated yet."
paCiteTextOf(paper) ==
    IF paper.citation # <<>> THEN paper.citation ELSE <<"Citation not generated yet.">>

\* line 147
paBoxHeightOf(nLines, hasSourceLink) ==
    (16 + nLines * 4 + (IF hasSourceLink THEN 10 ELSE 0)) * U

\* lines 136-185
paCitationSection(st, paper, idx) ==
    IF ~paHasCitationBox(paper) THEN st
    ELSE
      LET s0 == style(st, HelvNormal, 9, st.doc.color)
          citeText == paCiteTextOf(paper)
          citeLines == splitTextToSize(citeText, CiteChars)
          hasSourceLink == paper.sourceUrl # <<>>
          boxHeight == paBoxHeightOf(Len(citeLines), hasSourceLink)
          s1 == paCheckPageBreak(s0, boxHeight + 5 * U)
          y == s1.cursorY
          d1 == rect(s1.doc, "citeBox", y, boxHeight)
          d2 == text(setTextColor(d1, <<50, 50, 50>>), "citeLabel", <<"CITATION & VERIFICATION">>, idx, y + 6 * U)
          d3 == IF paper.isVerified
                THEN text(setFont(setTextColor(d2, <<0, 120, 0>>), HelvBold), "citeStatus", <<"Verified Source">>, idx, y + 6 * U)
                ELSE text(setFont(setTextColor(d2, <<150, 0, 0>>), HelvBold), "citeStatus", <<"Unverified">>, idx, y + 6 * U)
          d4 == text(setTextColor(setFont(d3, HelvNormal), <<40, 40, 40>>), "citeText", citeText, idx, y + 14 * U)
          d5 == IF paper.sourceUrl # <<>>
                THEN text(setFont(setTextColor(d4, LinkBlue), HelvBold), "citeLink", paper.sourceUrl, idx,
                          y + (14 + Len(citeLines) * 4 + 2) * U)
                ELSE d4
      IN  [doc |-> d5, cursorY |-> y + boxHeight + 10 * U]

\* lines 187-202: tag line, summary heading, body style
paTagsAndHeading(st, paper, idx) ==
    LET s1 == advance(draw(style(st, HelvNormal, 9, <<100, 100, 100>>), "tags", <<"Tags: ">> \o arrayJoin(paper.tags, ", "), idx),
                      lineHeight + 5 * U)
        s2 == advance(draw(style(s1, HelvBold, 12, <<0, 0, 0>>), "summaryHeading", <<"Abstract / Summary">>, idx),
                      lineHeight)
    IN  style(s2, HelvNormal, 11, s2.doc.color)

\* line 203
paSummaryLinesOf(paper) == splitTextToSize(paper.summary, SummaryChars)

\* lines 204-208: one call of the summaryLines.forEach callback
paSummaryLine(st, line, idx) ==
    advance(draw(paCheckPageBreak(st, lineHeight), "summaryLine", line, idx), lineHeight)

\* lines 212-222: rule and heading of the deep dive
paDeepDiveHeading(st, idx) ==
    LET s1 == paCheckPageBreak(st, 20 * U)
        s2 == advance([s1 EXCEPT !.doc = rect(@, "rule", s1.cursorY, 0)], 10 * U)
    IN  advance(draw(style(s2, HelvBold, 14, HeaderColor), "deepHeading", <<"Deep Dive Analysis">>, idx),
                lineHeight + 5 * U)

\* lines 230-234
paSourceLink(st, paper, idx) ==
    LET s1 == paCheckPageBreak(st, 20 * U)
    IN  draw(style(s1, s1.doc.font, 10, <<0, 0, 255>>), "sourceLink", <<"Original Source Link">>, idx)

\* ------------------------------------------------- inputs of the exporter
rep(c, n) == [k \in 1..n |-> c]

\* an analysis of LongLines body lines: spills onto a second page
LongAnalysis == [k \in 1..(2 * LongLines - 1) |-> IF k % 2 = 1 THEN "a" ELSE "\n"]

PaperPlain ==
    [title |-> rep("t", 10), authors |-> <<"A">>, citation |-> <<>>,
     isVerified |-> FALSE, sourceUrl |-> <<>>, tags |-> <<"x", "y">>,
     summary |-> rep("s", 2), fullAnalysis |-> <<>>, doi |-> <<>>]

PaperLong ==
    [title |-> rep("t", 71), authors |-> <<"B">>, citation |-> rep("c", 2 * CiteChars + 1),
     isVerified |-> TRUE, sourceUrl |-> <<"u">>, tags |-> <<>>,
     summary |-> rep("s", 1), fullAnalysis |-> LongAnalysis, doi |-> <<>>]

PaperDoi ==
    [title |-> rep("t", 70), authors |-> <<"C">>, citation |-> <<>>,
     isVerified |-> TRUE, sourceUrl |-> <<>>, tags |-> <<"x">>,
     summary |-> rep("s", 1), fullAnalysis |-> <<"a", "\n", "#", "#", " ", "h">>,
     doi |-> <<"1", "0", ".", "1", "/", "x">>]

PaperBigSummary ==
    [title |-> rep("t", 10), authors |-> <<"D">>, citation |-> rep("c", 1),
     isVerified |-> FALSE, sourceUrl |-> <<"u">>, tags |-> <<"x">>,
     summary |-> rep("s", LongLines * SummaryChars), fullAnalysis |-> <<>>,
     doi |-> <<"h", "t", "t", "p", ":", "d">>]

\* a paper whose citation takes 51 lines: the box still fits under the
\* authors line of the first page (54 + 16 + 4 * 51 + 5 < 280)
PaperTallCitation ==
    [title |-> rep("t", 10), authors |-> <<"E">>, citation |-> rep("c", 51 * CiteChars),
     isVerified |-> FALSE, sourceUrl |-> <<>>, tags |-> <<"x">>,
     summary |-> rep("s", 1), fullAnalysis |-> <<>>, doi |-> <<>>]

PaperSet == {PaperPlain, PaperLong, PaperDoi, PaperBigSummary}

\* the paper lists exported: every list of up to MaxPapers papers, one
\* list long enough to overflow the contents page, and the paper with the
\* tall citation box alone
PaperLists ==
    SeqsUpTo(PaperSet, MaxPapers) \cup {[k \in 1..TocFill |-> PaperDoi], <<PaperTallCitation>>}


\* ------------------------------------------------------------ state groups
mdIn == <<mdText, mdStartY>>
mdRun == <<mdPc, mdLines, mdK, mdCursorY, inCodeBlock, mdRet>>
callVars == <<papers, onProgress, caller>>
tocVars == <<tocPageNumber, tocEntries, tocJ>>
appVars == <<exportStatus, pdfProgress>>

\* the local state of the export as a layout record
here == [doc |-> doc, cursorY |-> cursorY]

\* ------------------------------------------------------------------- Init
\* the renderer has not been called
MdOff ==
    /\ mdPc = "off"
    /\ mdText = <<>>
    /\ mdStartY = 0
    /\ mdLines = <<>>
    /\ mdK = 0
    /\ mdCursorY = 0
    /\ inCodeBlock = FALSE
    /\ mdRet = 0

\* discoverPapers has not returned
NotReturned == [returned |-> FALSE, papers |-> <<>>]

\* discoverPapers is not part of the run
DiscOff ==
    /\ respText = <<>>
    /\ discovered = NotReturned

\* no first call of the renderer to compare with
TwiceOff == mdFirst = <<>>

\* no continuation is running
NoTask == [name |-> "none", file |-> <<>>, calls |-> <<>>]

\* the App as it starts: the dashboard, no paper selected (part_001 lines
\* 28-33), nothing awaited
SessOff ==
    /\ view = "DASHBOARD"
    /\ selectedPaper = <<>>
    /\ deepDives = {}
    /\ reading = {}
    /\ downloads = {}
    /\ task = NoTask

Null == "null"
\* part_001 line 36: the query the search box starts with
DefaultQuery == "SIGGRAPH 2025 technical papers"
NoSearches == [fresh |-> 0, more |-> 0]
\* localStorage has no item 'recentSearches'
NoItem == [present |-> FALSE, text |-> <<>>]

\* the App as it starts (part_001 lines 36-45): the default query, already
\* debounced, no error, no search, the clear-errors effect run once
SearchOff ==
    /\ searchQuery = DefaultQuery
    /\ debouncedSearchQuery = DefaultQuery
    /\ debounceTimer = <<>>
    /\ error = Null
    /\ isSearching = FALSE
    /\ searches = NoSearches
    /\ effectDeps = <<DefaultQuery, Null>>

\* an empty history, nothing stored
HistOff ==
    /\ recentSearches = <<>>
    /\ storedHistory = NoItem
    /\ lastAdded = <<>>

\* the rest of the App is not part of the run
RestOff ==
    /\ DiscOff
    /\ TwiceOff
    /\ SessOff
    /\ SearchOff
    /\ HistOff

\* the App and the DOI links are not part of the run
UiOff ==
    /\ exports = <<>>
    /\ idleTimers = 0
    /\ loadingDisables = TRUE
    /\ doiIn = <<>>
    /\ doiOut = <<>>
    /\ RestOff

\* no export has been started
ExIdle ==
    /\ onProgress = FALSE
    /\ caller = "none"
    /\ i = 0
    /\ doc = newDoc
    /\ cursorY = 0
    /\ tocPageNumber = 0
    /\ tocEntries = <<>>
    /\ tocJ = 0
    /\ progressCalls = <<>>
    /\ exportStatus = "idle"
    /\ pdfProgress = <<>>
    /\ sumK = 0
    /\ saved = FALSE

Init ==
    /\ UiOff
    /\ MdOff
    /\ ExIdle
    /\ pc = "idle"
    /\ papers \in PaperLists

\* printMarkdownContent called on a fresh document with any text
InitMd ==
    /\ UiOff
    /\ ExIdle
    /\ pc = "off"
    /\ papers = <<>>
    /\ mdPc = "ready"
    /\ mdText \in Texts
    /\ mdStartY \in StartYs
    /\ mdLines = <<>>
    /\ mdK = 0
    /\ mdCursorY = 0
    /\ inCodeBlock = FALSE
    /\ mdRet = 0

\* ---------------------------------------------- printMarkdownContent steps
\* lines 6-11: the call, up to the forEach
MdCall ==
    /\ UNCHANGED uiVars
    /\ mdPc = "ready"
    /\ LET e == mdEnter(doc, mdStartY)
       IN  /\ doc' = e.doc
           /\ mdCursorY' = e.cursorY
           /\ inCodeBlock' = e.inCodeBlock
    /\ mdLines' = split(mdText)
    /\ mdK' = 0
    /\ mdPc' = "loop"
    /\ UNCHANGED <<mdIn, mdRet, pc, callVars, i, cursorY, tocVars, progressCalls,
                   appVars, sumK, saved>>

\* lines 13-96: one call of the forEach callback
MdLineStep ==
    /\ UNCHANGED uiVars
    /\ mdPc = "loop"
    /\ mdK < Len(mdLines)
    /\ LET s == mdLine([doc |-> doc, cursorY |-> mdCursorY, inCodeBlock |-> inCodeBlock],
                       mdLines[mdK + 1])
       IN  /\ doc' = s.doc
           /\ mdCursorY' = s.cursorY
           /\ inCodeBlock' = s.inCodeBlock
    /\ mdK' = mdK + 1
    /\ UNCHANGED <<mdIn, mdPc, mdLines, mdRet, pc, callVars, i, cursorY, tocVars,
                   progressCalls, appVars, sumK, saved>>

\* line 98: return cursorY
MdReturn ==
    /\ UNCHANGED uiVars
    /\ mdPc = "loop"
    /\ mdK = Len(mdLines)
    /\ mdPc' = "returned"
    /\ mdRet' = mdCursorY
    /\ UNCHANGED <<mdIn, mdLines, mdK, mdCursorY, inCodeBlock, exVars>>

NextMd == MdCall \/ MdLineStep \/ MdReturn

SpecMd == InitMd /\ [][NextMd]_vars

\* ------------------------------------ printMarkdownContent, called twice
\* what a call has produced: the draw operations, the pages, the return value
mdOutput == [ops |-> doc.ops, numPages |-> doc.numPages, ret |-> mdRet]

\* lines 5-11: after the first call has returned, a second call with the
\* same text and starting cursor on a fresh document (the locals of the
\* first call are gone; the model keeps their last values until MdCall
\* sets them)
MdCallAgain ==
    /\ mdPc = "returned"
    /\ mdFirst = <<>>
    /\ mdFirst' = <<mdOutput>>
    /\ doc' = newDoc
    /\ mdPc' = "ready"
    /\ mdLines' = <<>>
    /\ mdK' = 0
    /\ mdRet' = 0
    /\ UNCHANGED <<mdIn, mdCursorY, inCodeBlock, pc, callVars, i, cursorY, tocVars,
                   progressCalls, appVars, sumK, saved>>
    /\ UNCHANGED <<exports, idleTimers, loadingDisables, doiIn, doiOut, discVars, sessVars,
                   searchVars, histVars>>

NextMdTwice == NextMd \/ MdCallAgain

SpecMdTwice == InitMd /\ [][NextMdTwice]_vars

\* ----------------------------------------------- generateResearchPDF steps
\* App lines 243-251 and lines 243-248: the export button calls the export
handleDownloadPDF ==
    /\ UNCHANGED uiVars
    /\ pc = "idle"
    /\ Len(papers) > 0
    /\ exportStatus' = "loading"
    /\ pdfProgress' = <<0, Len(papers)>>
    /\ caller' = "app"
    /\ onProgress' = TRUE
    /\ doc' = newDoc
    /\ cursorY' = 20 * U
    /\ pc' = "title"
    /\ UNCHANGED <<mdVars, papers, i, tocVars, progressCalls, sumK, saved>>

\* lines 239-248: generateResearchPDF(papers, onProgress?) called by any
\* other caller, with or without a callback
callExport(cb) ==
    /\ UNCHANGED uiVars
    /\ pc = "idle"
    /\ caller' = "direct"
    /\ onProgress' = cb
    /\ doc' = newDoc
    /\ cursorY' = 20 * U
    /\ pc' = "title"
    /\ UNCHANGED <<mdVars, papers, i, tocVars, progressCalls, appVars, sumK, saved>>

\* lines 257-303: title page, reserved contents page, empty tocEntries
TitlePage ==
    /\ UNCHANGED uiVars
    /\ pc = "title"
    /\ LET s == titlePage(doc)
           d == addPage(s.doc)
       IN  /\ doc' = d
           /\ cursorY' = s.cursorY
           /\ tocPageNumber' = d.numPages
    /\ tocEntries' = <<>>
    /\ i' = 0
    /\ pc' = "loop"
    /\ UNCHANGED <<mdVars, callVars, tocJ, progressCalls, appVars, sumK, saved>>

\* lines 306-314: loop head with a callback: onProgress(i + 1, papers.length),
\* which in App is setPdfProgress({current, total}); then the 10 ms yield
LoopProgress ==
    /\ UNCHANGED uiVars
    /\ pc = "loop"
    /\ i < Len(papers)
    /\ onProgress
    /\ LET args == progressArgs(i, Len(papers))
       IN  /\ progressCalls' = Append(progressCalls, args)
           /\ pdfProgress' = IF caller = "app" THEN args ELSE pdfProgress
    /\ pc' = "yield"
    /\ UNCHANGED <<mdVars, callVars, i, doc, cursorY, tocVars, exportStatus, sumK, saved>>

\* lines 306-310: loop head without a callback
LoopNoProgress ==
    /\ UNCHANGED uiVars
    /\ pc = "loop"
    /\ i < Len(papers)
    /\ ~onProgress
    /\ pc' = "page"
    /\ UNCHANGED <<mdVars, callVars, i, doc, cursorY, tocVars, progressCalls,
                   appVars, sumK, saved>>

\* line 313: the setTimeout(resolve, 10) fires
YieldResume ==
    /\ UNCHANGED uiVars
    /\ pc = "yield"
    /\ pc' = "page"
    /\ UNCHANGED <<mdVars, callVars, i, doc, cursorY, tocVars, progressCalls,
                   appVars, sumK, saved>>

\* lines 316-348: new page, start page captured, contents entry, header block
StartPaper ==
    /\ UNCHANGED uiVars
    /\ pc = "page"
    /\ LET paper == papers[i + 1]
           s == paperHeader(doc, paper, i + 1)
           startPage == startPageOf(addPage(doc))
       IN  /\ doc' = s.doc
           /\ cursorY' = s.cursorY
           /\ tocEntries' = Append(tocEntries, tocEntry(paper, startPage))
    /\ pc' = "cite"
    /\ UNCHANGED <<mdVars, callVars, i, tocPageNumber, tocJ, progressCalls,
                   appVars, sumK, saved>>

\* a step of a paper section that only draws: from one position to the next
sectionStep(from, to, s) ==
    /\ pc = from
    /\ doc' = s.doc
    /\ cursorY' = s.cursorY
    /\ pc' = to
    /\ UNCHANGED <<callVars, tocVars, progressCalls, appVars, saved>>

\* lines 350-397
CitationSection ==
    /\ UNCHANGED uiVars
    /\ sectionStep("cite", "tags", citationSection(here, papers[i + 1], i + 1))
    /\ UNCHANGED <<mdVars, i, sumK>>

\* lines 399-415
TagsAndHeading ==
    /\ UNCHANGED uiVars
    /\ sectionStep("tags", "sum", tagsAndHeading(here, papers[i + 1], i + 1))
    /\ sumK' = 0
    /\ UNCHANGED <<mdVars, i>>

\* lines 416-420: one summary line
SummaryLineStep ==
    /\ UNCHANGED uiVars
    /\ pc = "sum"
    /\ sumK < Len(summaryLinesOf(papers[i + 1]))
    /\ sectionStep("sum", "sum",
                   summaryLine(here, summaryLinesOf(papers[i + 1])[sumK + 1], i + 1))
    /\ sumK' = sumK + 1
    /\ UNCHANGED <<mdVars, i>>

\* line 421: cursorY += 10 after the summary
SummaryDone ==
    /\ UNCHANGED uiVars
    /\ pc = "sum"
    /\ sumK = Len(summaryLinesOf(papers[i + 1]))
    /\ sectionStep("sum", "deep", advance(here, 10 * U))
    /\ UNCHANGED <<mdVars, i, sumK>>

\* line 424: no fullAnalysis, no deep dive
DeepDiveSkip ==
    /\ UNCHANGED uiVars
    /\ pc = "deep"
    /\ papers[i + 1].fullAnalysis = <<>>
    /\ pc' = "link"
    /\ UNCHANGED <<mdVars, callVars, i, doc, cursorY, tocVars, progressCalls,
                   appVars, sumK, saved>>

\* lines 424-437: rule, heading and the call of printMarkdownContent
DeepDiveCall ==
    /\ UNCHANGED uiVars
    /\ pc = "deep"
    /\ papers[i + 1].fullAnalysis # <<>>
    /\ LET s == deepDiveHeading(here, i + 1)
           e == mdEnter(s.doc, s.cursorY)
       IN  /\ doc' = e.doc
           /\ cursorY' = s.cursorY
           /\ mdStartY' = s.cursorY
           /\ mdCursorY' = e.cursorY
           /\ inCodeBlock' = e.inCodeBlock
    /\ mdText' = papers[i + 1].fullAnalysis
    /\ mdLines' = split(papers[i + 1].fullAnalysis)
    /\ mdK' = 0
    /\ mdPc' = "loop"
    /\ pc' = "md"
    /\ UNCHANGED <<mdRet, callVars, i, tocVars, progressCalls, appVars, sumK, saved>>

\* lines 437-439: cursorY = the returned cursor, then cursorY += 10
DeepDiveReturn ==
    /\ UNCHANGED uiVars
    /\ pc = "md"
    /\ mdPc = "returned"
    /\ cursorY' = mdRet + 10 * U
    /\ mdPc' = "off"
    /\ pc' = "link"
    /\ UNCHANGED <<mdIn, mdLines, mdK, mdCursorY, inCodeBlock, mdRet, callVars, i, doc,
                   tocVars, progressCalls, appVars, sumK, saved>>

\* lines 442-447: source link, end of the iteration (i++)
SourceLink ==
    /\ UNCHANGED uiVars
    /\ sectionStep("link", "loop", sourceLink(here, papers[i + 1], i + 1))
    /\ i' = i + 1
    /\ UNCHANGED <<mdVars, sumK>>

\* lines 449-460: loop exit, back to the contents page
TocHeading ==
    /\ UNCHANGED uiVars
    /\ pc = "loop"
    /\ i >= Len(papers)
    /\ LET s == tocHeading(doc, tocPageNumber)
       IN  doc' = s.doc /\ cursorY' = s.cursorY
    /\ tocJ' = 0
    /\ pc' = "toc"
    /\ UNCHANGED <<mdVars, callVars, i, tocPageNumber, tocEntries, progressCalls,
                   appVars, sumK, saved>>

\* lines 462-501: one contents entry
TocEntryStep ==
    /\ UNCHANGED uiVars
    /\ pc = "toc"
    /\ tocJ < Len(tocEntries)
    /\ LET s == tocLine(here, tocEntries[tocJ + 1], tocJ + 1)
       IN  doc' = s.doc /\ cursorY' = s.cursorY
    /\ tocJ' = tocJ + 1
    /\ UNCHANGED <<mdVars, pc, callVars, i, tocPageNumber, tocEntries, progressCalls,
                   appVars, sumK, saved>>

\* line 503: doc.save
Save ==
    /\ UNCHANGED uiVars
    /\ pc = "toc"
    /\ tocJ = Len(tocEntries)
    /\ saved' = TRUE
    /\ pc' = "done"
    /\ UNCHANGED <<mdVars, callVars, i, doc, cursorY, tocVars, progressCalls,
                   appVars, sumK>>

\* App lines 253-255: the awaited export resolved
ExportResolved ==
    /\ UNCHANGED uiVars
    /\ pc = "done"
    /\ caller = "app"
    /\ exportStatus' = "success"
    /\ pdfProgress' = <<>>
    /\ pc' = "settled"
    /\ UNCHANGED <<mdVars, callVars, i, doc, cursorY, tocVars, progressCalls, sumK, saved>>

\* a drawing call of the journal export throws: the async function has
\* no try/catch, so the call ends there and its promise rejects (a running
\* printMarkdownContent is unwound with it)
DrawingThrows ==
    /\ UNCHANGED uiVars
    /\ caller \in {"app", "direct"}
    /\ pc \in {"title", "page", "cite", "tags", "sum", "deep", "md", "link", "toc"}
    /\ pc' = "rejected"
    /\ mdPc' = "off"
    /\ UNCHANGED <<mdIn, mdLines, mdK, mdCursorY, inCodeBlock, mdRet, callVars, i, doc,
                   cursorY, tocVars, progressCalls, appVars, sumK, saved>>

\* faulty variant of statusOnFailure: the failure shown as a success
statusOnFailureSuccess == "success"

\* App line 258: setExportStatus('error')
statusOnFailure == "error"

\* App lines 256-260: the catch branch of handleDownloadPDF
ExportRejected ==
    /\ UNCHANGED uiVars
    /\ pc = "rejected"
    /\ caller = "app"
    /\ exportStatus' = statusOnFailure
    /\ pdfProgress' = <<>>
    /\ pc' = "caught"
    /\ UNCHANGED <<mdVars, callVars, i, doc, cursorY, tocVars, progressCalls, sumK, saved>>

\* App lines 255 and 260: setTimeout(() => setExportStatus('idle'), 4000) fires
StatusReset ==
    /\ UNCHANGED uiVars
    /\ pc \in {"settled", "caught"}
    /\ exportStatus' = "idle"
    /\ pc' = "end"
    /\ UNCHANGED <<mdVars, callVars, i, doc, cursorY, tocVars, progressCalls,
                   pdfProgress, sumK, saved>>

\* ------------------------------------------ generatePaperAnalysisPDF steps
\* the paper the single-paper export was called with
paPaper == papers[i + 1]

\* lines 101-134: generatePaperAnalysisPDF(paper) called, by the download
\* button of the detail view (DeepDiveView line 101) or any other caller,
\* with a paper of the list
callPaperPDF(k) ==
    /\ UNCHANGED uiVars
    /\ pc = "idle"
    /\ k \in 1..Len(papers)
    /\ caller' = "single"
    /\ i' = k - 1
    /\ LET s == paHeader(papers[k], k)
       IN  doc' = s.doc /\ cursorY' = s.cursorY
    /\ pc' = "pa_cite"
    /\ UNCHANGED <<mdVars, papers, onProgress, tocVars, progressCalls, appVars, sumK, saved>>

\* a step of the single-paper export that only draws
paStep(from, to, s) ==
    /\ UNCHANGED uiVars
    /\ pc = from
    /\ doc' = s.doc
    /\ cursorY' = s.cursorY
    /\ pc' = to
    /\ UNCHANGED <<callVars, i, tocVars, progressCalls, appVars, saved>>

\* lines 136-185
PaCitationSection ==
    /\ paStep("pa_cite", "pa_tags", paCitationSection(here, paPaper, i + 1))
    /\ UNCHANGED <<mdVars, sumK>>

\* lines 187-203
PaTagsAndHeading ==
    /\ paStep("pa_tags", "pa_sum", paTagsAndHeading(here, paPaper, i + 1))
    /\ sumK' = 0
    /\ UNCHANGED mdVars

\* lines 204-208: one summary line
PaSummaryLineStep ==
    /\ pc = "pa_sum"
    /\ sumK < Len(paSummaryLinesOf(paPaper))
    /\ paStep("pa_sum", "pa_sum",
              paSummaryLine(here, paSummaryLinesOf(paPaper)[sumK + 1], i + 1))
    /\ sumK' = sumK + 1
    /\ UNCHANGED mdVars

\* line 209: cursorY += 10 after the summary
PaSummaryDone ==
    /\ pc = "pa_sum"
    /\ sumK = Len(paSummaryLinesOf(paPaper))
    /\ paStep("pa_sum", "pa_deep", advance(here, 10 * U))
    /\ UNCHANGED <<mdVars, sumK>>

\* line 212: no fullAnalysis, no deep dive
PaDeepDiveSkip ==
    /\ UNCHANGED uiVars
    /\ pc = "pa_deep"
    /\ paPaper.fullAnalysis = <<>>
    /\ pc' = "pa_link"
    /\ UNCHANGED <<mdVars, callVars, i, doc, cursorY, tocVars, progressCalls,
                   appVars, sumK, saved>>

\* lines 212-225: rule, heading and the call of printMarkdownContent
PaDeepDiveCall ==
    /\ UNCHANGED uiVars
    /\ pc = "pa_deep"
    /\ paPaper.fullAnalysis # <<>>
    /\ LET s == paDeepDiveHeading(here, i + 1)
           e == mdEnter(s.doc, s.cursorY)
       IN  /\ doc' = e.doc
           /\ cursorY' = s.cursorY
           /\ mdStartY' = s.cursorY
           /\ mdCursorY' = e.cursorY
           /\ inCodeBlock' = e.inCodeBlock
    /\ mdText' = paPaper.fullAnalysis
    /\ mdLines' = split(paPaper.fullAnalysis)
    /\ mdK' = 0
    /\ mdPc' = "loop"
    /\ pc' = "pa_md"
    /\ UNCHANGED <<mdRet, callVars, i, tocVars, progressCalls, appVars, sumK, saved>>

\* lines 225-227: cursorY = the returned cursor, then cursorY += 10
PaDeepDiveReturn ==
    /\ UNCHANGED uiVars
    /\ pc = "pa_md"
    /\ mdPc = "returned"
    /\ cursorY' = mdRet + 10 * U
    /\ mdPc' = "off"
    /\ pc' = "pa_link"
    /\ UNCHANGED <<mdIn, mdLines, mdK, mdCursorY, inCodeBlock, mdRet, callVars, i, doc,
                   tocVars, progressCalls, appVars, sumK, saved>>

\* lines 230-236: source link, then doc.save
PaLinkAndSave ==
    /\ UNCHANGED uiVars
    /\ pc = "pa_link"
    /\ LET s == paSourceLink(here, paPaper, i + 1)
       IN  doc' = s.doc /\ cursorY' = s.cursorY
    /\ saved' = TRUE
    /\ pc' = "pa_done"
    /\ UNCHANGED <<mdVars, callVars, i, tocVars, progressCalls, appVars, sumK>>

Next ==
    \/ handleDownloadPDF
    \/ \E cb \in BOOLEAN : callExport(cb)
    \/ TitlePage
    \/ LoopProgress
    \/ LoopNoProgress
    \/ YieldResume
    \/ StartPaper
    \/ CitationSection
    \/ TagsAndHeading
    \/ SummaryLineStep
    \/ SummaryDone
    \/ DeepDiveSkip
    \/ DeepDiveCall
    \/ MdLineStep
    \/ MdReturn
    \/ DeepDiveReturn
    \/ SourceLink
    \/ TocHeading
    \/ TocEntryStep
    \/ Save
    \/ ExportResolved
    \/ DrawingThrows
    \/ ExportRejected
    \/ StatusReset
    \/ \E k \in 1..MaxPick : callPaperPDF(k)
    \/ PaCitationSection
    \/ PaTagsAndHeading
    \/ PaSummaryLineStep
    \/ PaSummaryDone
    \/ PaDeepDiveSkip
    \/ PaDeepDiveCall
    \/ PaDeepDiveReturn
    \/ PaLinkAndSave

Spec == Init /\ [][Next]_vars

\* ------------------------------------------------------- DOI link targets
\* PaperCard line 13: getDoiUrl
getDoiUrl(doi) ==
    IF startsWith(doi, <<"h", "t", "t", "p">>) THEN doi ELSE <<"https://doi.org/">> \o doi

\* DeepDiveView line 178: the href of the DOI Record link
doiRecordHref(doi) ==
    IF startsWith(doi, <<"h", "t", "t", "p">>) THEN doi ELSE <<"https://doi.org/">> \o doi

\* faulty variant of getDoiLink: the resolver prefix put before every DOI
getDoiLinkAlwaysPrefix(doi) == <<"https://doi.org/">> \o doi

\* ResearchSidebar lines 91-94: getDoiLink
getDoiLink(doi) ==
    IF startsWith(doi, <<"h", "t", "t", "p">>) THEN doi ELSE <<"https://doi.org/">> \o doi

\* the DOI strings shown: every string of up to MaxDoiLen characters
DoiChars == {"h", "t", "p", "1"}
Dois == SeqsUpTo(DoiChars, MaxDoiLen)

\* the places that link a DOI
Sites == {"contents", "card", "detail", "sidebar"}

\* a paper with DOI doiIn is loaded, no place has rendered its link yet
InitDoi ==
    /\ MdOff
    /\ ExIdle
    /\ pc = "off"
    /\ papers = <<>>
    /\ exports = <<>>
    /\ idleTimers = 0
    /\ loadingDisables = TRUE
    /\ RestOff
    /\ doiIn \in Dois
    /\ doiOut = [site \in Sites |-> <<>>]

\* a place renders the link of the paper, which all do only for a DOI that
\* is not empty
renderDoi(site, target) ==
    /\ doiIn # <<>>
    /\ doiOut[site] = <<>>
    /\ doiOut' = [doiOut EXCEPT ![site] = target]
    /\ UNCHANGED <<mdVars, exVars, exports, idleTimers, loadingDisables, doiIn, restVars>>

\* pdfGenerator lines 487-492: the DOI line of a contents entry
ContentsDoiLink == renderDoi("contents", doiUrl(doiIn))

\* PaperCard lines 70-72
CardDoiLink == renderDoi("card", getDoiUrl(doiIn))

\* DeepDiveView lines 176-178
DetailDoiLink == renderDoi("detail", doiRecordHref(doiIn))

\* ResearchSidebar lines 294-296
SidebarDoiLink == renderDoi("sidebar", getDoiLink(doiIn))

NextDoi == ContentsDoiLink \/ CardDoiLink \/ DetailDoiLink \/ SidebarDoiLink

SpecDoi == InitDoi /\ [][NextDoi]_vars

\* ------------------------------------------- the App's two export buttons
\* The App as the browser runs it: one action per task of the event loop (a
\* click handler, a timer callback), each with the promise continuations it
\* sets off.  Every generateResearchPDF call builds its own jsPDF document
\* (line 243), so of a call only its position in the loop at lines 306-314 is
\* kept: the layout of one call is what Spec follows step by step.
MaxExports == 3      \* export calls made in one run

\* the Button component: a disabled button takes no click.  Button is
\* imported from ./components/Button, which is not among the sources:
\* whether it also disables itself while isLoading is set is left open
\* (loadingDisables is either from the start)
buttonDisabled(disabled, isLoading) == disabled \/ (loadingDisables /\ isLoading)

\* App lines 413-427: the header button, rendered on the dashboard when
\* there are papers, disabled={exportStatus !== 'idle'}
headerButtonEnabled ==
    /\ Len(papers) > 0
    /\ ~buttonDisabled(exportStatus # "idle", exportStatus = "loading")

\* ResearchSidebar lines 317-330: the sidebar button,
\* disabled={papers.length === 0}
sidebarButtonEnabled == ~buttonDisabled(Len(papers) = 0, exportStatus = "loading")

\* the generateResearchPDF calls that have been started and have neither
\* resolved nor rejected
inFlight == {e \in 1..Len(exports) : exports[e].state = "yield"}

\* the App is open on a list of papers, no export started
InitApp ==
    /\ MdOff
    /\ ExIdle
    /\ pc = "off"
    /\ papers \in SeqsUpTo({PaperPlain, PaperDoi}, MaxPapers)
    /\ exports = <<>>
    /\ idleTimers = 0
    /\ loadingDisables \in BOOLEAN
    /\ RestOff
    /\ doiIn = <<>>
    /\ doiOut = <<>>

\* what the App's tasks leave alone
appFrame ==
    UNCHANGED <<mdVars, pc, papers, onProgress, caller, i, doc, cursorY, tocVars,
                progressCalls, sumK, saved, loadingDisables, doiIn, doiOut, restVars>>

\* App lines 243-251 with lines 243-313: handleDownloadPDF up to the first
\* suspension of the export it starts: status 'loading', progress (0, n),
\* the title and contents pages, onProgress(1, n), then the 10 ms yield
startExport ==
    /\ Len(papers) > 0
    /\ Len(exports) < MaxExports
    /\ exportStatus' = "loading"
    /\ pdfProgress' = progressArgs(0, Len(papers))
    /\ exports' = Append(exports, [current |-> 1, total |-> Len(papers), state |-> "yield"])
    /\ UNCHANGED idleTimers
    /\ appFrame

\* App lines 243-248 and 256-260: the same click with a throw from the
\* title or contents page: the promise rejects before any yield and the
\* catch branch runs in the same task
startExportThrows ==
    /\ Len(papers) > 0
    /\ Len(exports) < MaxExports
    /\ exportStatus' = statusOnFailure
    /\ pdfProgress' = <<>>
    /\ idleTimers' = idleTimers + 1
    /\ exports' = Append(exports, [current |-> 0, total |-> Len(papers), state |-> "rejected"])
    /\ appFrame

\* App line 416: onClick={handleDownloadPDF} of the header button
HeaderClick == headerButtonEnabled /\ startExport
\* the header button's click, the export throwing at once
HeaderClickThrows == headerButtonEnabled /\ startExportThrows
\* App line 360 and ResearchSidebar line 319: onClick={onExport} of the
\* sidebar button
SidebarClick == sidebarButtonEnabled /\ startExport
\* the sidebar button's click, the export throwing at once
SidebarClickThrows == sidebarButtonEnabled /\ startExportThrows

\* lines 313-447 and 306-313: the 10 ms timer of call e fires: its paper is
\* laid out, and with papers left the loop calls onProgress for the next
\* one and yields again
ExportNextPaper(e) ==
    /\ e \in inFlight
    /\ exports[e].current < exports[e].total
    /\ exports' = [exports EXCEPT ![e].current = @ + 1]
    /\ pdfProgress' = progressArgs(exports[e].current, exports[e].total)
    /\ UNCHANGED <<exportStatus, idleTimers>>
    /\ appFrame

\* lines 313-503 and App lines 253-255: the timer of call e fires for its
\* last paper: section, contents backfill and save, the promise resolves
\* and handleDownloadPDF goes on: 'success', no progress, the idle timer
ExportLastPaper(e) ==
    /\ e \in inFlight
    /\ exports[e].current = exports[e].total
    /\ exports' = [exports EXCEPT ![e].state = "resolved"]
    /\ exportStatus' = "success"
    /\ pdfProgress' = <<>>
    /\ idleTimers' = idleTimers + 1
    /\ appFrame

\* lines 313-503 and App lines 256-260: the timer of call e fires and a
\* drawing call throws: the promise rejects and the catch branch runs
ExportThrows(e) ==
    /\ e \in inFlight
    /\ exports' = [exports EXCEPT ![e].state = "rejected"]
    /\ exportStatus' = statusOnFailure
    /\ pdfProgress' = <<>>
    /\ idleTimers' = idleTimers + 1
    /\ appFrame

\* App lines 255 and 260: one of the 4 s timers fires:
\* setExportStatus('idle'), whatever the status is by then
IdleTimerFires ==
    /\ idleTimers > 0
    /\ idleTimers' = idleTimers - 1
    /\ exportStatus' = "idle"
    /\ UNCHANGED <<pdfProgress, exports>>
    /\ appFrame

NextApp ==
    \/ HeaderClick
    \/ HeaderClickThrows
    \/ SidebarClick
    \/ SidebarClickThrows
    \/ \E e \in 1..MaxExports : ExportNextPaper(e)
    \/ \E e \in 1..MaxExports : ExportLastPaper(e)
    \/ \E e \in 1..MaxExports : ExportThrows(e)
    \/ IdleTimerFires

SpecApp == InitApp /\ [][NextApp]_vars

\* ----------------------------------------------------------- discoverPapers
\* part_000 lines 16-70.  A text is a sequence of characters in which the
\* two separators and one long word are kept as single elements.
FieldSep == "|||FIELD|||"
ItemSep == "|||ITEM|||"
LongWord == "pathtracing"
MaxParts == 5        \* fields of a response, over all its items

\* the characters an element stands for
charCount(c) == IF c \in {FieldSep, LongWord} THEN 11 ELSE IF c = ItemSep THEN 10 ELSE 1
\* String.prototype.length
strLength(s) ==
    LET n[k \in 0..Len(s)] == IF k = 0 THEN 0 ELSE n[k - 1] + charCount(s[k])
    IN  n[Len(s)]

\* String.prototype.split(sep) for a separator that occurs as one element
splitBy(s, sep) ==
    LET at == {k \in 1..Len(s) : s[k] = sep}
        brk(j) == IF j = 0 THEN 0
                  ELSE IF j > Cardinality(at) THEN Len(s) + 1
                  ELSE CHOOSE q \in at : Cardinality({r \in at : r < q}) = j - 1
    IN  [j \in 1..(Cardinality(at) + 1) |-> SubSeq(s, brk(j - 1) + 1, brk(j) - 1)]

\* String.prototype.trim: white space and line breaks off both ends
WhiteSpace == WS \cup {"\n"}
strTrim(s) ==
    LET ink == {k \in 1..Len(s) : s[k] \notin WhiteSpace}
    IN  IF ink = {} THEN <<>>
        ELSE SubSeq(s, CHOOSE k \in ink : \A q \in ink : k <= q,
                       CHOOSE k \in ink : \A q \in ink : k >= q)

\* line 54: clean = s ? s.replace(/\n/g, " ").trim() : "Unknown"
clean(s) ==
    IF s = <<>> THEN <<"Unknown">>
    ELSE strTrim([k \in 1..Len(s) |-> IF s[k] = "\n" THEN " " ELSE s[k]])

\* faulty variant of orDefault: the default only for a field that is
\* missing, not for an empty one (?? in the place of ||)
orDefaultIfMissing(parts, n, d) == IF n <= Len(parts) THEN parts[n] ELSE d

\* lines 59-62: parts[n - 1] || d: the default for a missing or empty field
orDefault(parts, n, d) == IF n <= Len(parts) /\ parts[n] # <<>> THEN parts[n] ELSE d

\* line 63: the fifth field split at commas, each tag trimmed, or the
\* default pair
tagsOf(parts) ==
    IF Len(parts) >= 5 /\ parts[5] # <<>>
    THEN LET raw == splitBy(parts[5], ",")
         IN  [k \in 1..Len(raw) |-> strTrim(raw[k])]
    ELSE <<<<"Graphics">>, <<"Research">>>>

\* lines 52-66: the map callback (id and createdAt, which come from the
\* clock and Math.random, are left out)
paperOfItem(item) ==
    LET raw == splitBy(item, FieldSep)
        parts == [k \in 1..Len(raw) |-> strTrim(raw[k])]
    IN  [title |-> clean(orDefault(parts, 1, <<"Untitled Research">>)),
         authors |-> clean(orDefault(parts, 2, <<"Unknown Authors">>)),
         summary |-> clean(orDefault(parts, 3, <<"No summary available.">>)),
         url |-> clean(orDefault(parts, 4, <<"#">>)),
         tags |-> tagsOf(parts)]

\* line 50: the items of more than 10 characters after trimming
itemsOf(txt) == SelectSeq(splitBy(txt, ItemSep), LAMBDA it : strLength(strTrim(it)) > 10)

\* lines 47-68: the papers parsed from the response text
parsePapers(txt) ==
    LET items == itemsOf(txt)
    IN  [k \in 1..Len(items) |-> paperOfItem(items[k])]

\* the field texts of the responses: blank (empty once trimmed), a lone
\* comma, and a text with a line break and a comma inside
FieldTexts == {<<" ", "\n">>, <<",">>, <<LongWord, "\n", "b", ",", " ", "c">>}

\* the response texts of exactly n fields, in any grouping into items
RECURSIVE ResponsesOf(_)
ResponsesOf(n) ==
    IF n = 1 THEN FieldTexts
    ELSE {r \o <<sep>> \o f : r \in ResponsesOf(n - 1), sep \in {FieldSep, ItemSep},
                               f \in FieldTexts}
Responses == UNION {ResponsesOf(n) : n \in 1..MaxParts}

\* the model has answered with any of the response texts
InitDiscover ==
    /\ MdOff
    /\ ExIdle
    /\ pc = "off"
    /\ papers = <<>>
    /\ exports = <<>>
    /\ idleTimers = 0
    /\ loadingDisables = TRUE
    /\ doiIn = <<>>
    /\ doiOut = <<>>
    /\ TwiceOff
    /\ SessOff
    /\ SearchOff
    /\ HistOff
    /\ respText \in Responses
    /\ discovered = NotReturned

\* lines 47-68: discoverPapers parses the response and returns the papers
DiscoverReturns ==
    /\ ~discovered.returned
    /\ discovered' = [returned |-> TRUE, papers |-> parsePapers(respText)]
    /\ UNCHANGED <<mdVars, exVars, exports, idleTimers, loadingDisables, doiIn, doiOut,
                   respText, mdFirst, sessVars, searchVars, histVars>>

NextDiscover == DiscoverReturns

SpecDiscover == InitDiscover /\ [][NextDiscover]_vars

\* ------------------------------------- App: views, deep dives, sessions
\* part_001 lines 170-241 and 266-318.  A handler called by React (a click)
\* is one step.  The code after an await and the FileReader's onload are
\* not called by React: there each set-state call may be rendered on its
\* own, so they are applied one by one, in their order, with no other
\* handler in between (task holds the calls left).
MaxSession == 2      \* papers of the list the App starts with
MaxAwaited == 2      \* deep dives and file readings awaited at one time

Undef == "undefined"
PaperKeys == {"id", "title", "fullAnalysis", "citation"}
\* the value of property k of object o
prop(o, k) == IF k \in DOMAIN o THEN o[k] ELSE Undef

\* a paper as performSearch puts it in the list: no analysis, no citation
foundPaper(n) == [id |-> <<"paper", n>>, title |-> "t"]

\* lines 185-198: the paper handleDeepDive builds from the report and the
\* verification result; citation: verificationResult.citation || paper.citation
updatedPaperOf(paper, cite) ==
    [id |-> paper.id, title |-> paper.title, fullAnalysis |-> "report",
     citation |-> IF cite # Undef THEN cite ELSE prop(paper, "citation")]

\* the citation the verification finds (lines 181, 192): none for the
\* first paper of a search, one for every other paper
verifiedCitation(paper) == IF paper.id = <<"paper", 1>> THEN Undef ELSE "cite"

\* JSON.stringify of a paper: properties whose value is undefined are left out
stringifyPaper(paper) == [k \in {q \in DOMAIN paper : paper[q] # Undef} |-> paper[k]]

\* lines 267-273: JSON.stringify(sessionData) (timestamp and version are
\* never read back)
stringifySession(list) ==
    [kind |-> "object", papersKind |-> "array",
     items |-> [k \in 1..Len(list) |-> stringifyPaper(list[k])]]

\* faulty variant of canLoad: any object with a papers property taken
canLoadAnyPapers(file) == file.kind = "object" /\ file.papersKind # "missing"

\* lines 293-297: JSON.parse does not throw, reading data.papers does not
\* throw (data is not null) and Array.isArray(data.papers)
canLoad(file) == file.kind = "object" /\ file.papersKind = "array"

\* the files a user can pick besides the saved ones: not JSON, the JSON
\* null, an object with no papers, with papers that is a string, with an
\* empty array, with an array of one analysed paper
Files ==
    { [kind |-> "invalid", papersKind |-> "missing", items |-> <<>>],
      [kind |-> "null", papersKind |-> "missing", items |-> <<>>],
      [kind |-> "object", papersKind |-> "missing", items |-> <<>>],
      [kind |-> "object", papersKind |-> "string", items |-> <<[id |-> <<"paper", 9>>, title |-> "s"]>>],
      [kind |-> "object", papersKind |-> "array", items |-> <<>>],
      [kind |-> "object", papersKind |-> "array",
       items |-> <<[id |-> <<"paper", 3>>, title |-> "u", fullAnalysis |-> "report"]>>] }

\* the set-state calls of the continuations
setPapersMap(paper) == [set |-> "papersMap", list |-> <<>>, paper |-> <<paper>>, to |-> ""]
setPapers(list) == [set |-> "papers", list |-> list, paper |-> <<>>, to |-> ""]
setSelectedPaper(sel) == [set |-> "selectedPaper", list |-> <<>>, paper |-> sel, to |-> ""]
setView(v) == [set |-> "view", list |-> <<>>, paper |-> <<>>, to |-> v]

\* the papers of the list
listed == {papers[k] : k \in 1..Len(papers)}
\* awaited calls can still be started
canAwait == Cardinality(deepDives) + Cardinality(reading) < MaxAwaited

InitSession ==
    /\ MdOff
    /\ ExIdle
    /\ pc = "off"
    /\ exports = <<>>
    /\ idleTimers = 0
    /\ loadingDisables = TRUE
    /\ doiIn = <<>>
    /\ doiOut = <<>>
    /\ DiscOff
    /\ TwiceOff
    /\ SessOff
    /\ SearchOff
    /\ HistOff
    /\ papers \in {[k \in 1..n |-> foundPaper(k)] : n \in 0..MaxSession}

\* what the handlers of this part leave alone
sessFrame ==
    UNCHANGED <<mdVars, pc, onProgress, caller, i, doc, cursorY, tocVars, progressCalls,
                appVars, sumK, saved, exports, idleTimers, loadingDisables, doiIn, doiOut,
                discVars, mdFirst, searchVars, histVars>>

\* lines 170-175: handleDeepDive of a paper that has its analysis
DeepDiveShow(paper) ==
    /\ task = NoTask
    /\ paper \in listed
    /\ prop(paper, "fullAnalysis") # Undef
    /\ selectedPaper' = <<paper>>
    /\ view' = "DETAIL"
    /\ UNCHANGED <<papers, deepDives, reading, downloads, task>>
    /\ sessFrame

\* lines 170, 177-183: handleDeepDive of a paper without analysis, up to
\* the await
DeepDiveStart(paper) ==
    /\ task = NoTask
    /\ paper \in listed
    /\ prop(paper, "fullAnalysis") = Undef
    /\ canAwait
    /\ deepDives' = deepDives \cup {paper}
    /\ UNCHANGED <<papers, view, selectedPaper, reading, downloads, task>>
    /\ sessFrame

\* lines 185-208: report and verification have come: the list updated by
\* id, the updated paper selected, the detail view
DeepDiveResolved(paper, cite) ==
    /\ task = NoTask
    /\ paper \in deepDives
    /\ deepDives' = deepDives \ {paper}
    /\ LET updated == updatedPaperOf(paper, cite)
       IN  task' = [name |-> "dive", file |-> <<>>,
                    calls |-> <<setPapersMap(updated), setSelectedPaper(<<updated>>),
                                setView("DETAIL")>>]
    /\ UNCHANGED <<papers, view, selectedPaper, reading, downloads>>
    /\ sessFrame

\* lines 209-214: report or verification failed: the paper as it was
\* clicked is selected, the detail view
DeepDiveRejected(paper) ==
    /\ task = NoTask
    /\ paper \in deepDives
    /\ deepDives' = deepDives \ {paper}
    /\ task' = [name |-> "dive", file |-> <<>>,
                calls |-> <<setSelectedPaper(<<paper>>), setView("DETAIL")>>]
    /\ UNCHANGED <<papers, view, selectedPaper, reading, downloads>>
    /\ sessFrame

\* the next set-state call of the running continuation is applied
ApplySetState ==
    /\ task.calls # <<>>
    /\ LET call == Head(task.calls)
       IN  /\ papers' = IF call.set = "papers" THEN call.list
                        ELSE IF call.set = "papersMap"
                        THEN [k \in 1..Len(papers) |->
                                 IF papers[k].id = call.paper[1].id THEN call.paper[1]
                                 ELSE papers[k]]
                        ELSE papers
           /\ selectedPaper' = IF call.set = "selectedPaper" THEN call.paper ELSE selectedPaper
           /\ view' = IF call.set = "view" THEN call.to ELSE view
    /\ task' = IF Len(task.calls) = 1 THEN NoTask ELSE [task EXCEPT !.calls = Tail(@)]
    /\ UNCHANGED <<deepDives, reading, downloads>>
    /\ sessFrame

\* lines 224-227: handleBack, the back button of the detail view (line 171)
handleBack ==
    /\ task = NoTask
    /\ view = "DETAIL" /\ selectedPaper # <<>>
    /\ selectedPaper' = <<>>
    /\ view' = "DASHBOARD"
    /\ UNCHANGED <<papers, deepDives, reading, downloads, task>>
    /\ sessFrame

\* faulty variant of deleteSelection: the selection cleared, the view kept
deleteSelectionKeepView(id) ==
    IF selectedPaper # <<>> /\ selectedPaper[1].id = id
    THEN [selectedPaper |-> <<>>, view |-> view]
    ELSE [selectedPaper |-> selectedPaper, view |-> view]

\* lines 231-234: what deleting paper id does to the selection and the view
deleteSelection(id) ==
    IF selectedPaper # <<>> /\ selectedPaper[1].id = id
    THEN [selectedPaper |-> <<>>, view |-> "DASHBOARD"]
    ELSE [selectedPaper |-> selectedPaper, view |-> view]

\* lines 229-235: handleDeletePaper(id)
handleDeletePaper(id) ==
    /\ task = NoTask
    /\ \E paper \in listed : paper.id = id
    /\ papers' = SelectSeq(papers, LAMBDA paper : paper.id # id)
    /\ selectedPaper' = deleteSelection(id).selectedPaper
    /\ view' = deleteSelection(id).view
    /\ UNCHANGED <<deepDives, reading, downloads, task>>
    /\ sessFrame

\* lines 237-241: handleClearAll
handleClearAll ==
    /\ task = NoTask
    /\ papers # <<>>
    /\ papers' = <<>>
    /\ selectedPaper' = <<>>
    /\ view' = "DASHBOARD"
    /\ UNCHANGED <<deepDives, reading, downloads, task>>
    /\ sessFrame

\* lines 267-282: handleSaveSession writes the session file
handleSaveSession ==
    /\ task = NoTask
    /\ downloads = {}
    /\ downloads' = {stringifySession(papers)}
    /\ UNCHANGED <<papers, view, selectedPaper, deepDives, reading, task>>
    /\ sessFrame

\* lines 288-292 and 317: handleFileChange starts reading the file picked
handleFileChange(file) ==
    /\ task = NoTask
    /\ file \in Files \cup downloads
    /\ file \notin reading
    /\ canAwait
    /\ reading' = reading \cup {file}
    /\ UNCHANGED <<papers, view, selectedPaper, deepDives, downloads, task>>
    /\ sessFrame

\* lines 292-310: reader.onload of a file that parses to an object whose
\* papers is an array
FileLoaded(file) ==
    /\ task = NoTask
    /\ file \in reading
    /\ canLoad(file)
    /\ reading' = reading \ {file}
    /\ task' = [name |-> "load", file |-> <<file>>,
                calls |-> <<setPapers(file.items), setView("DASHBOARD"),
                            setSelectedPaper(<<>>)>>]
    /\ UNCHANGED <<papers, view, selectedPaper, deepDives, downloads>>
    /\ sessFrame

\* lines 292-310: reader.onload of any other file: the alert of line 303
\* or, when JSON.parse or data.papers throws, of line 307
FileRefused(file) ==
    /\ task = NoTask
    /\ file \in reading
    /\ ~canLoad(file)
    /\ reading' = reading \ {file}
    /\ UNCHANGED <<papers, view, selectedPaper, deepDives, downloads, task>>
    /\ sessFrame

NextSession ==
    \/ \E paper \in listed : DeepDiveShow(paper)
    \/ \E paper \in listed : DeepDiveStart(paper)
    \/ \E paper \in deepDives : DeepDiveResolved(paper, verifiedCitation(paper))
    \/ \E paper \in deepDives : DeepDiveRejected(paper)
    \/ ApplySetState
    \/ handleBack
    \/ \E paper \in listed : handleDeletePaper(paper.id)
    \/ handleClearAll
    \/ handleSaveSession
    \/ \E file \in Files \cup downloads : handleFileChange(file)
    \/ \E file \in reading : FileLoaded(file)
    \/ \E file \in reading : FileRefused(file)

SpecSession == InitSession /\ [][NextSession]_vars

\* --------------------------------------------- App: the search history
\* part_001 lines 88-103
MaxHistory == 6      \* line 90: slice(0, 6)

\* JSON.stringify of a list of strings, as its tokens
stringifyList(list) == <<"[">> \o arrayJoin(list, ",") \o <<"]">>
\* JSON.parse of such a text
parseList(txt) == [k \in 1..((Len(txt) - 1) \div 2) |-> txt[2 * k]]
\* lines 64-68: the history the App loads from what is stored
loadedHistory(item) == IF item.present THEN parseList(item.text) ELSE <<>>

\* faulty variant of historyWith: the query already listed is kept as well
historyWithDuplicates(prev, query) ==
    SubSeq(<<query>> \o prev, 1, IF Len(prev) < MaxHistory THEN Len(prev) + 1 ELSE MaxHistory)

\* line 90: [query, ...prev.filter(q => q !== query)].slice(0, 6)
historyWith(prev, query) ==
    LET newHistory == <<query>> \o SelectSeq(prev, LAMBDA q : q # query)
    IN  SubSeq(newHistory, 1, IF Len(newHistory) < MaxHistory THEN Len(newHistory) ELSE MaxHistory)

\* line 99: prev.filter(q => q !== query)
historyWithout(prev, query) == SelectSeq(prev, LAMBDA q : q # query)

\* lines 88-94: addToHistory(query)
addToHistory(query) ==
    /\ recentSearches' = historyWith(recentSearches, query)
    /\ storedHistory' = [present |-> TRUE, text |-> stringifyList(historyWith(recentSearches, query))]
    /\ lastAdded' = <<[query |-> query, removed |-> FALSE]>>

\* lines 96-103: removeHistoryItem(e, query)
removeHistoryItem(query) ==
    /\ recentSearches' = historyWithout(recentSearches, query)
    /\ storedHistory' = [present |-> TRUE, text |-> stringifyList(historyWithout(recentSearches, query))]
    /\ lastAdded' = IF lastAdded # <<>> /\ lastAdded[1].query = query
                    THEN <<[query |-> query, removed |-> TRUE]>>
                    ELSE lastAdded

\* the queries of the history runs: one more than the history keeps
HistoryQueries == {"q1", "q2", "q3", "q4", "q5", "q6", "q7"}

InitHistory ==
    /\ MdOff
    /\ ExIdle
    /\ pc = "off"
    /\ papers = <<>>
    /\ exports = <<>>
    /\ idleTimers = 0
    /\ loadingDisables = TRUE
    /\ doiIn = <<>>
    /\ doiOut = <<>>
    /\ RestOff

histFrame ==
    UNCHANGED <<mdVars, exVars, exports, idleTimers, loadingDisables, doiIn, doiOut,
                discVars, mdFirst, sessVars, searchVars>>

AddToHistory(query) == addToHistory(query) /\ histFrame
RemoveHistoryItem(query) == removeHistoryItem(query) /\ histFrame

NextHistory ==
    \/ \E query \in HistoryQueries : AddToHistory(query)
    \/ \E query \in HistoryQueries : RemoveHistoryItem(query)

SpecHistory == InitHistory /\ [][NextHistory]_vars

\* ------------------------------------------------------ App: searching
\* part_001 lines 11-23, 79-84 and 105-168.  The clear-errors effect runs
\* after a render in which debouncedSearchQuery or error has changed and
\* before anything else happens.  The code of performSearch after its
\* awaits is not called by React: its set-state calls are applied one by
\* one (task holds the calls left).
MaxInFlight == 2     \* performSearch calls awaited at one time
MaxFound == 2        \* papers a search list grows to by loading more

NoPapersFound == "No papers found. Please try a different query."
FailedToFetch == "Failed to fetch research data. Please try again."

\* the texts typed in the search box: nothing, a blank, two queries
SearchQueries == {"", " ", DefaultQuery, "neural rendering"}
\* query.trim() is empty
blankQuery(query) == query \in {"", " "}
\* a JavaScript string is truthy unless it is empty
truthy(str) == str # "" /\ str # Null

setError(msg) == [set |-> "error", list |-> <<>>, paper |-> <<>>, to |-> msg]
setPapersAppend(list) == [set |-> "papersAppend", list |-> list, paper |-> <<>>, to |-> ""]
setIsSearchingFalse == [set |-> "isSearching", list |-> <<>>, paper |-> <<>>, to |-> "false"]

inFlightSearches == searches.fresh + searches.more
\* the clear-errors effect has run since the last change of its dependencies
effectsFlushed == effectDeps = <<debouncedSearchQuery, error>>
\* nothing is running: a handler can be called
idle == task = NoTask /\ effectsFlushed

InitSearch ==
    /\ MdOff
    /\ ExIdle
    /\ pc = "off"
    /\ exports = <<>>
    /\ idleTimers = 0
    /\ loadingDisables \in BOOLEAN
    /\ doiIn = <<>>
    /\ doiOut = <<>>
    /\ RestOff
    /\ papers \in {<<>>, <<foundPaper(1)>>}

searchFrame ==
    UNCHANGED <<mdVars, pc, onProgress, caller, i, doc, cursorY, tocVars, progressCalls,
                appVars, sumK, saved, exports, idleTimers, loadingDisables, doiIn, doiOut,
                discVars, mdFirst, view, selectedPaper, deepDives, reading, downloads>>

\* lines 80-82: if (debouncedSearchQuery && error) setError(null)
clearedError(query, err) == IF truthy(query) /\ truthy(err) THEN Null ELSE err

\* lines 79-84: the clear-errors effect
ClearErrorsEffect ==
    /\ ~effectsFlushed
    /\ effectDeps' = <<debouncedSearchQuery, error>>
    /\ error' = clearedError(debouncedSearchQuery, error)
    /\ UNCHANGED <<papers, task, searchQuery, debouncedSearchQuery, debounceTimer,
                   isSearching, searches, histVars>>
    /\ searchFrame

\* line 466 with lines 14-21: typing sets searchQuery; useDebounce clears
\* its timer and starts one for the new value
TypeQuery(query) ==
    /\ idle
    /\ query # searchQuery
    /\ searchQuery' = query
    /\ debounceTimer' = <<query>>
    /\ UNCHANGED <<papers, task, debouncedSearchQuery, error, isSearching, searches,
                   effectDeps, histVars>>
    /\ searchFrame

\* lines 15-17: the 500 ms timer of useDebounce fires
DebounceFires ==
    /\ idle
    /\ debounceTimer # <<>>
    /\ debouncedSearchQuery' = debounceTimer[1]
    /\ debounceTimer' = <<>>
    /\ UNCHANGED <<papers, task, searchQuery, error, isSearching, searches, effectDeps,
                   histVars>>
    /\ searchFrame

\* line 106: performSearch returns at once for a blank query (the second
\* conjunct keeps the number of awaited calls of a run finite)
searchCanStart(query) == ~blankQuery(query) /\ inFlightSearches < MaxInFlight

\* lines 105-127: performSearch(query, isLoadMore) up to its first await
performSearch(query, isLoadMore) ==
    /\ searchCanStart(query)
    /\ isSearching' = TRUE
    /\ error' = Null
    /\ IF isLoadMore
       THEN /\ searches' = [searches EXCEPT !.more = @ + 1]
            /\ UNCHANGED <<papers, histVars>>
       ELSE /\ searches' = [searches EXCEPT !.fresh = @ + 1]
            /\ papers' = <<>>
            /\ addToHistory(query)
    /\ UNCHANGED <<task, debouncedSearchQuery, effectDeps>>
    /\ searchFrame

\* lines 156-159 with lines 471-476: the form is submitted
handleSearchSubmit ==
    /\ idle
    /\ ~buttonDisabled(blankQuery(searchQuery), isSearching /\ papers = <<>>)
    /\ performSearch(searchQuery, FALSE)
    /\ UNCHANGED <<searchQuery, debounceTimer>>

\* lines 161-164 with line 483: a recent search is clicked
handleRecentSearchClick(query) ==
    /\ idle
    /\ ~isSearching /\ papers = <<>>
    /\ \E k \in 1..Len(recentSearches) : recentSearches[k] = query
    /\ searchQuery' = query
    /\ debounceTimer' = IF query # searchQuery THEN <<query>> ELSE debounceTimer
    /\ performSearch(query, FALSE)

\* lines 166-168 with lines 551 and 572-576: more results are asked for
handleLoadMore ==
    /\ idle
    /\ papers # <<>> /\ Len(papers) < MaxFound
    /\ ~buttonDisabled(FALSE, isSearching)
    /\ performSearch(searchQuery, TRUE)
    /\ UNCHANGED <<searchQuery, debounceTimer>>

\* lines 96-103 with lines 483-496: a recent search is removed
RemoveRecentSearch(query) ==
    /\ idle
    /\ ~isSearching /\ papers = <<>>
    /\ \E k \in 1..Len(recentSearches) : recentSearches[k] = query
    /\ removeHistoryItem(query)
    /\ UNCHANGED <<papers, task, searchVars>>
    /\ searchFrame

\* lines 142-153: what performSearch does once discoverPapers has returned
\* results
callsOnResults(isLoadMore, results) ==
    IF results = <<>> /\ ~isLoadMore
    THEN <<setError(NoPapersFound), setIsSearchingFalse>>
    ELSE IF isLoadMore THEN <<setPapersAppend(results), setIsSearchingFalse>>
    ELSE <<setPapers(results), setIsSearchingFalse>>

\* lines 130-146: discoverPapers of a new search returns
SearchReturns(results) ==
    /\ idle
    /\ searches.fresh > 0
    /\ searches' = [searches EXCEPT !.fresh = @ - 1]
    /\ task' = [name |-> "search", file |-> <<>>, calls |-> callsOnResults(FALSE, results)]
    /\ UNCHANGED <<papers, searchQuery, debouncedSearchQuery, debounceTimer, error,
                   isSearching, effectDeps, histVars>>
    /\ searchFrame

\* lines 130-146: discoverPapers of a load-more search returns
LoadMoreReturns(results) ==
    /\ idle
    /\ searches.more > 0
    /\ searches' = [searches EXCEPT !.more = @ - 1]
    /\ task' = [name |-> "search", file |-> <<>>, calls |-> callsOnResults(TRUE, results)]
    /\ UNCHANGED <<papers, searchQuery, debouncedSearchQuery, debounceTimer, error,
                   isSearching, effectDeps, histVars>>
    /\ searchFrame

\* lines 148-153: discoverPapers throws
SearchThrows(isLoadMore) ==
    /\ idle
    /\ IF isLoadMore
       THEN searches.more > 0 /\ searches' = [searches EXCEPT !.more = @ - 1]
       ELSE searches.fresh > 0 /\ searches' = [searches EXCEPT !.fresh = @ - 1]
    /\ task' = [name |-> "search", file |-> <<>>,
                calls |-> <<setError(FailedToFetch), setIsSearchingFalse>>]
    /\ UNCHANGED <<papers, searchQuery, debouncedSearchQuery, debounceTimer, error,
                   isSearching, effectDeps, histVars>>
    /\ searchFrame

\* the next set-state call of performSearch's continuation is applied
ApplySearchState ==
    /\ task.name = "search"
    /\ effectsFlushed
    /\ LET call == Head(task.calls)
       IN  /\ papers' = IF call.set = "papers" THEN call.list
                        ELSE IF call.set = "papersAppend" THEN papers \o call.list
                        ELSE papers
           /\ error' = IF call.set = "error" THEN call.to ELSE error
           /\ isSearching' = IF call.set = "isSearching" THEN FALSE ELSE isSearching
    /\ task' = IF Len(task.calls) = 1 THEN NoTask ELSE [task EXCEPT !.calls = Tail(@)]
    /\ UNCHANGED <<searchQuery, debouncedSearchQuery, debounceTimer, searches, effectDeps,
                   histVars>>
    /\ searchFrame

NextSearch ==
    \/ ClearErrorsEffect
    \/ \E query \in SearchQueries : TypeQuery(query)
    \/ DebounceFires
    \/ handleSearchSubmit
    \/ \E query \in SearchQueries : handleRecentSearchClick(query)
    \/ handleLoadMore
    \/ \E query \in SearchQueries : RemoveRecentSearch(query)
    \/ \E results \in {<<>>, <<foundPaper(1)>>} : SearchReturns(results)
    \/ \E results \in {<<>>, <<foundPaper(2)>>} : LoadMoreReturns(results)
    \/ \E isLoadMore \in BOOLEAN : SearchThrows(isLoadMore)
    \/ ApplySearchState

SpecSearch == InitSearch /\ [][NextSearch]_vars

\* ------------------------------------------------------- claim vocabulary
\* the draw operations of the document so far
ops == doc.ops
OpIdx == 1..Len(ops)
\* the operations the step just taken has added
newOps == SubSeq(doc'.ops, Len(doc.ops) + 1, Len(doc'.ops))
\* the physical lines printMarkdownContent draws
MdTextKinds == {"header", "body", "code"}
\* the export has laid out every paper and saved
Finished == pc \in {"done", "settled", "end"} /\ saved
\* the page of the last element (the source link) of section idx
linkPage(idx) == ops[CHOOSE k \in OpIdx : ops[k].op = "sourceLink" /\ ops[k].ref = idx].page
\* the number of pages section idx occupies
pagesOf(idx) == linkPage(idx) - tocEntries[idx].page + 1
\* runs of three or more backticks in a text: its triple-backtick markers
markerCount(s) ==
    Cardinality({p \in 1..(Len(s) - 2) :
        /\ s[p] = BT /\ s[p + 1] = BT /\ s[p + 2] = BT
        /\ (p = 1 \/ s[p - 1] # BT)})
\* the line the forEach step being taken processes
stepLine == mdLines[mdK + 1]
\* the step being taken is a forEach step of the renderer
IsMdStep == mdPc = "loop" /\ mdK' = mdK + 1

\* ------------------------------------------------------------------ C1
\* C1: for every paper, the page stored in its contents entry is the page on
\* which its 'Paper #i' header and its title are drawn, at every moment of
\* the export and after it has ended, contents overflow included.
C1_TocPageIsHeaderPage ==
    LET heads == {k \in OpIdx : ops[k].op \in {"paperHeader", "paperTitle"}}
        headed == {ops[k].ref : k \in {q \in heads : ops[q].op = "paperHeader"}}
        titled == {ops[k].ref : k \in {q \in heads : ops[q].op = "paperTitle"}}
    IN  /\ \A idx \in 1..Len(tocEntries) : idx \in headed /\ idx \in titled
        /\ \A k \in heads :
              /\ ops[k].ref \in 1..Len(tocEntries)
              /\ ops[k].page = tocEntries[ops[k].ref].page
        /\ Finished => Len(tocEntries) = Len(papers)

\* C1 witness: an export has ended whose contents backfill overflowed onto
\* an appended page
C1_Witness ==
    /\ pc = "done"
    /\ Len(tocEntries) = TocFill
    /\ \E k \in OpIdx : ops[k].op = "tocEntry" /\ ops[k].page > tocPageNumber + Len(papers)

\* ------------------------------------------------------------------ C2
\* C2 (as claimed): every call onProgress(k, total) made so far was made
\* after paper k was processed, so paper k's section is complete.
C2_ProgressAfterPaper ==
    \A n \in 1..Len(progressCalls) : progressCalls[n][1] <= i

\* C2 (amended): the call onProgress(k, total) is made before paper k is
\* processed: right after the call papers 1..k-1 are complete, paper k has
\* no page, contents entry or drawing yet, and no paper page is appended
\* without its call having been made first.
C2_ProgressBeforePaper ==
    /\ pc = "yield" =>
          /\ Len(progressCalls) = i + 1
          /\ progressCalls[i + 1][1] = i + 1
          /\ Len(tocEntries) = i
          /\ \A k \in OpIdx : ops[k].ref <= i \/ ops[k].op \notin {"paperHeader", "paperTitle"}
    /\ onProgress => Len(tocEntries) <= Len(progressCalls)

\* C2 witness: the call for the second paper has just been made
C2_Witness == pc = "yield" /\ i = 1 /\ Len(progressCalls) = 2

\* ------------------------------------------------------------------ C3
\* C3: with a callback, the calls made so far are (1, n), (2, n), ... in
\* order, at most n of them, exactly n once the paper loop is over, none
\* for n = 0; in App each call sets pdfProgress to its arguments.
C3_ProgressCalls ==
    /\ \A n \in 1..Len(progressCalls) :
          /\ progressCalls[n] = <<n, Len(papers)>>
          /\ 1 <= progressCalls[n][1] /\ progressCalls[n][1] <= progressCalls[n][2]
    /\ Len(progressCalls) <= Len(papers)
    /\ (onProgress /\ (pc = "toc" \/ Finished)) => Len(progressCalls) = Len(papers)
    /\ ~onProgress => progressCalls = <<>>
    /\ (caller = "app" /\ pc = "yield") => pdfProgress = progressCalls[Len(progressCalls)]

\* C3 witness: an export of three papers with a callback has ended
C3_Witness ==
    pc = "done" /\ onProgress /\ Len(papers) = 3 /\ Len(progressCalls) = 3

\* ------------------------------------------------------------------ C4
\* C4: every physical line printMarkdownContent draws (header, body, code)
\* is drawn at a cursor of at most pageHeight - 20, and a line drawn on a
\* page the renderer appended is drawn at or below the top margin.
C4_DrawnAboveBottomMargin ==
    \A k \in OpIdx :
        ops[k].op \in MdTextKinds =>
            /\ ops[k].y <= pageHeight - BottomMargin
            /\ ops[k].page > 1 => ops[k].y >= margin

\* C4 witness: the cursor was past the threshold before a line, and the
\* line was drawn at the top margin of an appended page
C4_Witness ==
    /\ mdPc = "returned"
    /\ mdStartY > pageHeight - BottomMargin
    /\ \E k \in OpIdx : ops[k].op \in MdTextKinds /\ ops[k].page = 2 /\ ops[k].y = margin

\* ------------------------------------------------------------------ C5
\* C5 (as claimed): on the empty text the renderer draws nothing, appends
\* no page and returns the starting cursor.
C5_EmptyTextUnchanged ==
    (mdPc = "returned" /\ mdText = <<>>) =>
        /\ ops = <<>>
        /\ doc.numPages = 1
        /\ mdRet = mdStartY

\* C5 (amended): on the empty text the renderer draws nothing; it returns
\* the starting cursor plus the blank-line gap of 4 and appends no page
\* when the starting cursor is at most pageHeight - 20, and otherwise
\* appends one page and returns the top margin plus 4.
C5_EmptyTextBlankLine ==
    (mdPc = "returned" /\ mdText = <<>>) =>
        /\ ops = <<>>
        /\ IF mdStartY > pageHeight - BottomMargin
           THEN doc.numPages = 2 /\ mdRet = margin + 4 * U
           ELSE doc.numPages = 1 /\ mdRet = mdStartY + 4 * U

\* C5 witness: the renderer has returned from the empty text
C5_Witness == mdPc = "returned" /\ mdText = <<>> /\ mdStartY = 20 * U

\* ------------------------------------------------------------------ C6
\* C6 (as claimed): outside a code block, a line whose trimmed content
\* starts with one to six '#' is drawn in the header style, without its
\* leading '#', each wrapped line advancing the cursor by 7.
C6_HeaderMarkers ==
    [][(/\ IsMdStep
        /\ ~inCodeBlock
        /\ leadingHashes(trim(stepLine), 7) \in 1..6)
       => /\ newOps # <<>>
          /\ \A k \in 1..Len(newOps) :
                /\ newOps[k].op = "header"
                /\ newOps[k].font = HelvBold
                /\ newOps[k].size = 13
          /\ Head(newOps[1].txt) # "#"
          /\ mdCursorY' = newOps[Len(newOps)].y + HeaderLineHeight]_vars

\* ------------------------------------------------------------------ C7
\* C7 (as claimed): right after a header line is rendered the style is the
\* body default in font, size and colour.
C7_StyleResetAfterHeader ==
    [][(/\ IsMdStep
        /\ ~inCodeBlock
        /\ isHeaderLine(trim(stepLine)))
       => /\ doc'.font = HelvNormal
          /\ doc'.size = 11
          /\ doc'.color = BodyColor]_vars

\* ------------------------------------------------------------------ C8
\* the index of the line holding the only marker of the text
markerLine == CHOOSE m \in 1..Len(mdLines) : markerCount(mdLines[m]) = 1
\* the text that follows the marker on line m, trimmed
restAfterMarker(m) ==
    LET l == mdLines[m]
        p == CHOOSE q \in 1..Len(l) : l[q] = BT
    IN  trim(SubSeq(l, p + 3, Len(l)))
\* every operation of a step is in code style, and a line is drawn
AllCodeStyle(new) ==
    /\ \E k \in 1..Len(new) : new[k].op = "code"
    /\ \A k \in 1..Len(new) :
          /\ new[k].op \in {"code", "codeBand"}
          /\ new[k].font = CourierNormal
          /\ new[k].size = 9
          /\ new[k].color = CodeColor

\* C8 (as claimed): with a single unterminated triple-backtick marker,
\* wherever it stands in its line, every later line is drawn in code style,
\* and text after the marker on its own line is drawn in code style, never
\* in body or header style.
C8_CodeAfterMarkerAnywhere ==
    [][(IsMdStep /\ markerCount(mdText) = 1 /\ mdK + 1 >= markerLine)
       => IF mdK + 1 > markerLine
          THEN AllCodeStyle(newOps)
          ELSE /\ \A k \in 1..Len(newOps) : newOps[k].op \in {"code", "codeBand"}
               /\ restAfterMarker(markerLine) # <<>> => AllCodeStyle(newOps)]_vars

\* C8 (amended): with a single unterminated triple-backtick marker that
\* starts the trimmed content of its line, every later line is drawn in
\* code style and none in body or header style; the marker's own line,
\* text after the marker included, is not drawn.
C8_CodeAfterLeadingMarker ==
    [][(/\ IsMdStep
        /\ markerCount(mdText) = 1
        /\ mdK + 1 >= markerLine
        /\ startsWith(trim(mdLines[markerLine]), <<BT, BT, BT>>))
       => IF mdK + 1 > markerLine
          THEN inCodeBlock /\ AllCodeStyle(newOps)
          ELSE newOps = <<>> /\ inCodeBlock' /\ ~inCodeBlock]_vars

\* C8 witness: a text with one leading marker has been rendered and a
\* later line was drawn as code
C8_Witness ==
    /\ mdPc = "returned"
    /\ markerCount(mdText) = 1
    /\ markerLine < Len(mdLines)
    /\ startsWith(trim(mdLines[markerLine]), <<BT, BT, BT>>)
    /\ \E k \in OpIdx : ops[k].op = "code" /\ ops[k].txt # <<>>

\* ------------------------------------------------------------------ C9
\* C9: on a text with no triple-backtick sequence the renderer is never in
\* code-block mode and draws nothing in code style.
C9_NoMarkerNoCode ==
    markerCount(mdText) = 0 =>
        /\ ~inCodeBlock
        /\ \A k \in OpIdx : ops[k].op \notin {"code", "codeBand"}

\* C9 witness: a text with backticks but no triple backtick has been drawn
C9_Witness ==
    /\ mdPc = "returned"
    /\ markerCount(mdText) = 0
    /\ \E p \in 1..Len(mdText) : mdText[p] = BT
    /\ \E k \in OpIdx : ops[k].op = "body"

\* ----------------------------------------------------------------- C10
\* three papers of which only the second has the long analysis
OnlySecondLong ==
    /\ Len(papers) = 3
    /\ papers[2].fullAnalysis = LongAnalysis
    /\ papers[1].fullAnalysis # LongAnalysis
    /\ papers[3].fullAnalysis # LongAnalysis

\* C10 (as claimed): such an export has 1 title page, 1 contents page and
\* at least 5 paper-content pages.
C10_AtLeastFiveContentPages ==
    (pc = "done" /\ OnlySecondLong) =>
        /\ tocPageNumber = 2
        /\ doc.numPages - tocPageNumber >= 5

\* C10 (amended): such an export has 1 title page, 1 contents page and at
\* least 4 paper-content pages: paper #2 takes at least two, every paper at
\* least one, and there are exactly 4 when papers #1 and #3 take one page
\* each and paper #2 takes two.
C10_AtLeastFourContentPages ==
    (pc = "done" /\ OnlySecondLong) =>
        /\ tocPageNumber = 2
        /\ pagesOf(2) >= 2
        /\ doc.numPages - tocPageNumber = pagesOf(1) + pagesOf(2) + pagesOf(3)
        /\ doc.numPages - tocPageNumber >= 4
        /\ (pagesOf(1) = 1 /\ pagesOf(2) = 2 /\ pagesOf(3) = 1) =>
               doc.numPages - tocPageNumber = 4

\* C10 witness: such an export has ended with exactly 4 content pages
C10_Witness ==
    /\ pc = "done"
    /\ OnlySecondLong
    /\ pagesOf(2) = 2
    /\ doc.numPages = 6

\* ----------------------------------------------------------------- C11
\* the operations of one kind, in drawing order
opsOf(kind) == SelectSeq(ops, LAMBDA o : o.op = kind)

\* C11: the contents backfill writes one entry per input paper, in input
\* order and numbered 1..n, each with the page number recorded for that
\* paper on the same line, and a DOI line right under exactly the entries
\* whose paper has a non-empty DOI.
C11_TocEntriesInOrder ==
    LET ent == opsOf("tocEntry")
        pg == opsOf("tocPage")
        doiLines == opsOf("tocDoi")
    IN  /\ pc = "toc" => Len(ent) = tocJ
        /\ Finished => Len(ent) = Len(papers)
        /\ Len(pg) = Len(ent)
        /\ \A k \in 1..Len(ent) :
              /\ ent[k].ref = k
              /\ startsWith(papers[k].title, SubSeq(ent[k].txt, 1, 10))
              /\ pg[k].ref = tocEntries[k].page
              /\ pg[k].page = ent[k].page /\ pg[k].y = ent[k].y
              /\ papers[k].doi # <<>> <=>
                    \E q \in 1..Len(doiLines) :
                        /\ doiLines[q].ref = k
                        /\ doiLines[q].page = ent[k].page
                        /\ doiLines[q].y = ent[k].y + 5 * U
        /\ \A q, r \in 1..Len(doiLines) : doiLines[q].ref = doiLines[r].ref => q = r

\* C11 witness: an export of three papers has ended, the third with a DOI
\* and the first without
C11_Witness ==
    /\ pc = "done"
    /\ Len(papers) = 3
    /\ papers[1].doi = <<>>
    /\ papers[3].doi # <<>>
    /\ Len(opsOf("tocDoi")) >= 1

\* ----------------------------------------------------------------- C12
\* C12: during a journal export pages and drawings are only appended, the
\* contents page keeps the index 2 it was reserved at, nothing is drawn on
\* it before the last paper's section is complete, and the export goes
\* back to it exactly once, when every paper has been laid out.
C12_ContentsPageReserved ==
    [][caller' \in {"app", "direct"} =>
       /\ doc'.numPages >= doc.numPages
       /\ pc \notin {"idle"} =>
             /\ Len(doc'.ops) >= Len(doc.ops)
             /\ SubSeq(doc'.ops, 1, Len(doc.ops)) = doc.ops
       /\ tocPageNumber # 0 => tocPageNumber' = tocPageNumber /\ tocPageNumber = 2
       /\ (\E k \in 1..Len(doc'.ops) : doc'.ops[k].page = 2) =>
             /\ pc' \in {"toc", "done", "settled", "end", "rejected", "caught"}
             /\ i' = Len(papers)
             /\ \A idx \in 1..Len(papers) :
                   \E k \in 1..Len(doc'.ops) :
                       doc'.ops[k].op = "sourceLink" /\ doc'.ops[k].ref = idx
       /\ (doc'.page # doc.page /\ doc'.numPages = doc.numPages) =>
             /\ pc = "loop" /\ pc' = "toc"
             /\ i = Len(papers)
             /\ doc'.page = tocPageNumber
       /\ pc = "toc" => pc' \in {"toc", "done", "rejected"}
       /\ pc' \in {"toc", "done"} =>
             Cardinality({k \in 1..Len(doc'.ops) : doc'.ops[k].op = "tocHeading"}) = 1]_vars

\* C12 witness: an export of two or more papers has ended, the contents
\* heading drawn on page 2 after pages were appended behind it
C12_Witness ==
    /\ pc = "done"
    /\ Len(papers) >= 2
    /\ doc.numPages >= 4
    /\ \E k \in OpIdx : ops[k].op = "tocHeading" /\ ops[k].page = 2

\* ----------------------------------------------------------------- C13
\* the layout cursor: the renderer's while it runs, else the export's
layoutCursor == IF mdPc \in {"loop", "returned"} THEN mdCursorY ELSE cursorY
\* layoutCursor in the next state
layoutCursorNext == IF mdPc' \in {"loop", "returned"} THEN mdCursorY' ELSE cursorY'
\* an export or the renderer is laying out before and after the step (a
\* step that abandons the export on a throw lays nothing out)
Laying == pc # "idle" /\ mdPc # "ready" /\ pc' # "rejected"
\* the step takes the cursor to the top margin of a page it appends
ResetOnNewPage == doc'.numPages > doc.numPages /\ layoutCursorNext >= margin

\* C13 (as claimed): in both exports and in the renderer every step either
\* moves the cursor down the page or takes it to the top margin of a page
\* appended in that step.
C13_CursorUpOrNewPage ==
    [][Laying => (layoutCursorNext >= layoutCursor \/ ResetOnNewPage)]_vars

\* C13 (amended): the same, except for the one step of the journal export
\* that goes back to the reserved contents page: there the cursor is set to
\* the top margin of that page, which is not newly appended.
C13_CursorUpOrNewPageOrContents ==
    [][Laying =>
          \/ layoutCursorNext >= layoutCursor
          \/ ResetOnNewPage
          \/ /\ pc = "loop" /\ pc' = "toc"
             /\ doc'.numPages = doc.numPages
             /\ doc'.page = tocPageNumber
             /\ newOps[1].op = "tocHeading" /\ newOps[1].y = margin
             /\ cursorY' = margin + 15 * U]_vars

\* C13 witness: a journal export has ended in which a page break reset the
\* cursor and the backfill went back to the contents page
C13_Witness ==
    /\ pc = "done"
    /\ doc.numPages > tocPageNumber + Len(papers)
    /\ \E k \in OpIdx : ops[k].op = "tocHeading" /\ ops[k].y = margin /\ ops[k].page = tocPageNumber

\* ----------------------------------------------------------------- C14
\* the operations of a kind drawn for section idx
opsFor(kind, idx) == {k \in OpIdx : ops[k].op = kind /\ ops[k].ref = idx}
\* the parts of the citation boxes drawn: labels, status labels, texts, links
citeOps == {k \in OpIdx : ops[k].op \in {"citeLabel", "citeStatus", "citeText", "citeLink"}}
\* the paper sections whose citation step is behind them, in either export:
\* those whose summary heading, drawn right after it, is in the document
CitedSections == {ops[k].ref : k \in {q \in OpIdx : ops[q].op = "summaryHeading"}}

\* C14: in both exports a citation box is drawn for a paper exactly when it
\* has a non-empty citation or is verified; its text is the citation when
\* there is one and else the placeholder, and its status label is
\* 'Verified Source' exactly when the paper is verified, else 'Unverified'.
C14_CitationBox ==
    LET cited == CitedSections
        parts == citeOps
        boxes == {k \in OpIdx : ops[k].op = "citeBox"}
        of(kind, idx) == {k \in parts : ops[k].op = kind /\ ops[k].ref = idx}
    IN  /\ \A k \in parts :
              /\ ops[k].ref \in 1..Len(papers)
              /\ LET paper == papers[ops[k].ref]
                 IN  paper.citation # <<>> \/ paper.isVerified
        /\ \A idx \in cited :
              LET paper == papers[idx]
                  boxed == paper.citation # <<>> \/ paper.isVerified
              IN  /\ Cardinality(of("citeLabel", idx)) = (IF boxed THEN 1 ELSE 0)
                  /\ Cardinality(of("citeText", idx)) = (IF boxed THEN 1 ELSE 0)
                  /\ Cardinality(of("citeStatus", idx)) = (IF boxed THEN 1 ELSE 0)
                  /\ \A k \in of("citeLabel", idx) : k > 1 /\ ops[k - 1].op = "citeBox"
                  /\ \A k \in of("citeText", idx) :
                        ops[k].txt = (IF paper.citation # <<>> THEN paper.citation
                                      ELSE <<"Citation not generated yet.">>)
                  /\ \A k \in of("citeStatus", idx) :
                        ops[k].txt = (IF paper.isVerified THEN <<"Verified Source">>
                                      ELSE <<"Unverified">>)
        /\ Cardinality(boxes) = Cardinality({k \in parts : ops[k].op = "citeLabel"})

\* C14 witness: the single-paper export of a verified paper with no
\* citation has drawn a box with the placeholder text
C14_Witness ==
    /\ caller = "single"
    /\ pc = "pa_done"
    /\ paPaper.citation = <<>> /\ paPaper.isVerified
    /\ \E k \in OpIdx :
          /\ ops[k].op = "citeText"
          /\ ops[k].txt = <<"Citation not generated yet.">>
    /\ \E k \in OpIdx : ops[k].op = "citeStatus" /\ ops[k].txt = <<"Verified Source">>

\* ----------------------------------------------------------------- C15
\* the citation boxes drawn: the index of each box's label
CiteLabels == {k \in OpIdx : ops[k].op = "citeLabel"}
\* the rectangle of the box whose label is operation k
boxOf(k) == ops[k - 1]
\* the number of wrapped lines of the citation text of the box of label k
citeLineCount(k) ==
    LET paper == papers[ops[k].ref]
    IN  Len(splitTextToSize(IF paper.citation # <<>> THEN paper.citation
                            ELSE <<"Citation not generated yet.">>, CiteChars))
\* whether the paper of the box of label k has a verified source URL
hasLink(k) == papers[ops[k].ref].sourceUrl # <<>>

\* C15: in both exports the height of every citation box drawn is
\* 16 + 4 x (wrapped citation lines) + 10 if there is a verified source
\* URL; it is at least 16 + 4, and of two boxes with the same link status
\* the one with more citation lines is strictly higher.
C15_BoxHeight ==
    LET labels == CiteLabels
        lines == [k \in labels |-> citeLineCount(k)]
    IN  \A k \in labels :
            /\ boxOf(k).op = "citeBox"
            /\ boxOf(k).h = (16 + 4 * lines[k] + (IF hasLink(k) THEN 10 ELSE 0)) * U
            /\ boxOf(k).h >= (16 + 4) * U
            /\ \A q \in labels :
                  (hasLink(q) = hasLink(k) /\ lines[q] > lines[k]) =>
                      boxOf(q).h > boxOf(k).h

\* C15 witness: a journal export has drawn two boxes with source links, one
\* of one citation line and one of three
C15_Witness ==
    /\ pc = "done"
    /\ \E k, q \in CiteLabels :
          /\ hasLink(k) /\ hasLink(q)
          /\ citeLineCount(k) = 1 /\ citeLineCount(q) = 3
          /\ boxOf(q).h = boxOf(k).h + 8 * U

\* ----------------------------------------------------------------- C16
\* C16: in both exports, for every box drawn, the baselines of the label
\* (y + 6), of every citation line k (y + 14 + 4(k - 1)) and of the source
\* link (y + 14 + 4n + 2) lie within [y, y + boxHeight] of its rectangle,
\* and label, status, text and link are drawn on the rectangle's page at
\* those offsets from the rectangle's y.
C16_TextInsideBox ==
    LET cite == citeOps
    IN  \A k \in {q \in cite : ops[q].op = "citeLabel"} :
            LET box == boxOf(k)
                n == citeLineCount(k)
                idx == ops[k].ref
                inside(y) == box.y <= y /\ y <= box.y + box.h
                parts == {q \in cite : ops[q].ref = idx}
                of(kind) == {q \in parts : ops[q].op = kind}
            IN  /\ box.op = "citeBox"
                /\ n >= 1
                /\ \A q \in parts : ops[q].page = box.page /\ inside(ops[q].y)
                /\ ops[k].y = box.y + 6 * U
                /\ \A q \in of("citeStatus") : ops[q].y = box.y + 6 * U
                /\ \A q \in of("citeText") :
                      /\ ops[q].y = box.y + 14 * U
                      /\ \A line \in 1..n : inside(ops[q].y + 4 * (line - 1) * U)
                /\ hasLink(k) <=> of("citeLink") # {}
                /\ \A q \in of("citeLink") : ops[q].y = box.y + (14 + 4 * n + 2) * U

\* C16 witness: a box with three citation lines and a source link is drawn
C16_Witness ==
    \E k \in CiteLabels :
        /\ citeLineCount(k) = 3
        /\ \E q \in opsFor("citeLink", ops[k].ref) : ops[q].y = boxOf(k).y + boxOf(k).h - 10 * U

\* ----------------------------------------------------------------- C17
\* C17: in a contents entry a title of 71 or more characters appears as its
\* first 70 characters followed by an ellipsis, and a title of 70 or fewer
\* characters appears in full with no ellipsis.
C17_TitleTruncation ==
    \A k \in OpIdx :
        ops[k].op = "tocEntry" =>
            LET t == papers[ops[k].ref].title
                mark == IF papers[ops[k].ref].isVerified THEN 1 ELSE 0
                shown == SubSeq(ops[k].txt, 1, Len(ops[k].txt) - mark)
            IN  IF Len(t) >= 71
                THEN shown = SubSeq(t, 1, 70) \o <<"...">>
                ELSE shown = t /\ \A q \in 1..Len(shown) : shown[q] # "..."

\* C17 witness: the contents list a title of 71 characters, cut, and a
\* title of exactly 70 characters, in full
C17_Witness ==
    /\ pc = "done"
    /\ \E k \in OpIdx :
          /\ ops[k].op = "tocEntry"
          /\ Len(papers[ops[k].ref].title) = 71
          /\ ops[k].txt[71] = "..."
    /\ \E k \in OpIdx :
          /\ ops[k].op = "tocEntry"
          /\ Len(papers[ops[k].ref].title) = 70
          /\ ops[k].txt[70] = "t"

\* ----------------------------------------------------------------- C18
\* C18: for every DOI the link target is the DOI itself when it starts with
\* 'http' and 'https://doi.org/' followed by the DOI otherwise, and the
\* contents page of the PDF, the paper card, the deep-dive view and the
\* sidebar compute the same target.
C18_DoiTargets ==
    LET isUrl == /\ Len(doiIn) >= 4
                 /\ doiIn[1] = "h" /\ doiIn[2] = "t" /\ doiIn[3] = "t" /\ doiIn[4] = "p"
        target == IF isUrl THEN doiIn ELSE <<"https://doi.org/">> \o doiIn
    IN  /\ \A site \in DOMAIN doiOut : doiOut[site] # <<>> => doiOut[site] = target
        /\ \A a, b \in DOMAIN doiOut :
              (doiOut[a] # <<>> /\ doiOut[b] # <<>>) => doiOut[a] = doiOut[b]

\* C18 witness: all four places have linked a DOI that holds 'http' but
\* does not start with it
C18_Witness ==
    /\ doiIn = <<"1", "h", "t", "t", "p">>
    /\ \A site \in Sites : doiOut[site] = <<"https://doi.org/", "1", "h", "t", "t", "p">>

\* ----------------------------------------------------------------- C19
\* C19: once a drawing call has thrown in generateResearchPDF the export is
\* rejected for good: the document is never saved, no paper is processed
\* and no progress callback is made after it, and the only step that
\* follows in handleDownloadPDF sets the export status to 'error' and
\* clears the progress value.
C19_FailureAbandonsExport ==
    [][/\ pc \in {"rejected", "caught"} =>
             /\ ~saved /\ ~saved'
             /\ i' = i
             /\ tocEntries' = tocEntries
             /\ progressCalls' = progressCalls
             /\ doc' = doc
             /\ mdPc = "off" /\ mdPc' = "off"
       /\ pc = "rejected" =>
             /\ caller = "app"
             /\ pc' = "caught"
             /\ exportStatus = "loading"
             /\ exportStatus' = "error"
             /\ pdfProgress' = <<>>
       /\ pc = "caught" => pc' = "end" /\ exportStatus' = "idle" /\ pdfProgress' = <<>>]_vars

\* C19 witness: a throw after the second progress call, while the second
\* of three papers was laid out, has been caught by handleDownloadPDF
C19_Witness ==
    /\ pc = "caught"
    /\ exportStatus = "error"
    /\ pdfProgress = <<>>
    /\ Len(papers) = 3
    /\ i = 1
    /\ Len(progressCalls) = 2
    /\ ~saved

\* ----------------------------------------------------------------- C20
\* C20 (as claimed): the App never runs two journal exports at once: in
\* every reachable state at most one generateResearchPDF call is in flight.
C20_AtMostOneExportInFlight == Cardinality(inFlight) <= 1

\* C20 (as claimed), for a Button that disables itself while loading: the
\* same, since then no click gets through while the status is 'loading'
C20_AtMostOneInFlightWhenLoadingDisables ==
    loadingDisables => Cardinality(inFlight) <= 1

\* ----------------------------------------------------------------- C21
\* C21: a single-paper export of a paper whose tags array is empty runs to
\* its end (the document is saved) and its one tag line is exactly
\* 'Tags: ', with nothing after it.
C21_EmptyTagsLine ==
    (caller = "single" /\ paPaper.tags = <<>>) =>
        /\ pc \in {"pa_cite", "pa_tags", "pa_sum", "pa_deep", "pa_md", "pa_link", "pa_done"}
        /\ pc = "pa_done" => saved
        /\ pc \notin {"pa_cite", "pa_tags"} =>
              /\ Cardinality(opsFor("tags", i + 1)) = 1
              /\ \A k \in opsFor("tags", i + 1) : ops[k].txt = <<"Tags: ">>
        /\ pc \in {"pa_cite", "pa_tags"} => opsFor("tags", i + 1) = {}

\* C21 witness: the single-paper export of a paper with no tags has saved
\* its document, the tag line drawn
C21_Witness ==
    /\ caller = "single"
    /\ pc = "pa_done"
    /\ saved
    /\ paPaper.tags = <<>>
    /\ \E k \in OpIdx : ops[k].op = "tags" /\ ops[k].txt = <<"Tags: ">>

\* ----------------------------------------------------------------- C22
\* a text with nothing but white space in it
isBlank(s) == \A k \in 1..Len(s) : s[k] \in WhiteSpace
\* field n of an item as the response has it (<<>> when it is missing)
fieldOf(item, n) ==
    LET raw == splitBy(item, FieldSep)
    IN  IF n <= Len(raw) THEN raw[n] ELSE <<>>

\* C22: for any response text discoverPapers returns a list of papers, one
\* per item of more than 10 characters, each with a non-empty title,
\* authors, summary and url and a non-empty tags array; a field that is
\* missing or blank in the response has its literal placeholder.
C22_PlaceholdersForBlankFields ==
    discovered.returned =>
        LET items == itemsOf(respText)
            default == [title |-> <<"Untitled Research">>, authors |-> <<"Unknown Authors">>,
                        summary |-> <<"No summary available.">>, url |-> <<"#">>]
            place == [title |-> 1, authors |-> 2, summary |-> 3, url |-> 4]
        IN  /\ Len(discovered.papers) = Len(items)
            /\ \A k \in 1..Len(discovered.papers) :
                  /\ \A f \in DOMAIN place :
                        /\ discovered.papers[k][f] # <<>>
                        /\ isBlank(fieldOf(items[k], place[f])) =>
                               discovered.papers[k][f] = default[f]
                  /\ discovered.papers[k].tags # <<>>
                  /\ isBlank(fieldOf(items[k], 5)) =>
                         discovered.papers[k].tags = <<<<"Graphics">>, <<"Research">>>>

\* C22 witness: a response of two items, one too short and dropped, the
\* other with an empty title and a blank summary, has been parsed into one
\* paper with both placeholders
C22_Witness ==
    /\ Len(splitBy(respText, ItemSep)) = 2
    /\ discovered.returned
    /\ Len(discovered.papers) = 1
    /\ discovered.papers[1].title = <<"Untitled Research">>
    /\ discovered.papers[1].summary = <<"No summary available.">>
    /\ discovered.papers[1].authors = <<LongWord, " ", "b", ",", " ", "c">>

sameList(a, b) ==
    /\ Len(a) = Len(b)
    /\ \A k \in 1..Len(a) : \A key \in PaperKeys : prop(a[k], key) = prop(b[k], key)

\* C24: when the file read is valid JSON whose papers is an array, the
\* load ends with the list being the file's papers, the dashboard shown
\* and no paper selected; for any other file the list, the view and the
\* selection stay as they are; and a file Save Session writes is loadable
\* and holds exactly the list saved.
C24_LoadSession ==
    [][/\ \A file \in reading \ reading' :
             IF file.kind = "object" /\ file.papersKind = "array"
             THEN task'.name = "load" /\ task'.file = <<file>>
             ELSE UNCHANGED <<papers, view, selectedPaper, task>>
       /\ (task.name = "load" /\ task'.name = "none") =>
             /\ papers' = task.file[1].items
             /\ view' = "DASHBOARD"
             /\ selectedPaper' = <<>>
       /\ \A file \in downloads' \ downloads :
             /\ file.kind = "object" /\ file.papersKind = "array"
             /\ sameList(file.items, papers)]_vars

\* C24 witness: the list shown has been loaded from a file Save Session
\* wrote: its first paper is analysed and has no citation property, which
\* only a saved file leaves out
C24_Witness ==
    /\ task = NoTask
    /\ \E file \in downloads :
          /\ Len(file.items) >= 1
          /\ "fullAnalysis" \in DOMAIN file.items[1]
          /\ "citation" \notin DOMAIN file.items[1]
          /\ papers = file.items
    /\ reading = {}
    /\ view = "DASHBOARD"
    /\ \E k \in 1..Len(papers) : papers[k].id = <<"paper", 1>>

\* ----------------------------------------------------------------- C29
\* C29: in every state, whatever the order of deep-dive completions, back,
\* delete, clear-all and session loads, the detail view is shown only with
\* a selected paper.
C29_DetailHasSelectedPaper == view = "DETAIL" => selectedPaper # <<>>

\* C29 witness: the detail view shows a paper that has been deleted from
\* the list while its deep dive was awaited
C29_Witness ==
    /\ view = "DETAIL"
    /\ selectedPaper # <<>>
    /\ \A k \in 1..Len(papers) : papers[k].id # selectedPaper[1].id
    /\ task = NoTask

\* ----------------------------------------------------------------- C25
\* C25: an error set by a search that failed or found nothing is cleared
\* only by a step that starts a new search or by the clear-errors effect
\* running after the debounced query has changed.
C25_ErrorStaysUntilQueryChanges ==
    [][(error # Null /\ error' = Null) =>
          \/ inFlightSearches' > inFlightSearches
          \/ debouncedSearchQuery # effectDeps[1]]_vars

\* ----------------------------------------------------------------- C28
\* C28: in every state, when one or more performSearch calls are awaiting
\* their results, isSearching is true.
C28_SearchingWhileInFlight == inFlightSearches > 0 => isSearching

\* the same when a Button with isLoading set cannot be clicked
C28_SearchingWhenLoadingDisables == loadingDisables => C28_SearchingWhileInFlight

\* ----------------------------------------------------------------- C30
noDuplicates(list) == \A a, b \in 1..Len(list) : list[a] = list[b] => a = b

\* C30 as stated: at most 6 entries, no duplicates, the most recently
\* added query first, the stored copy equal to the state.
C30_HistoryAsStated ==
    /\ Len(recentSearches) <= MaxHistory
    /\ noDuplicates(recentSearches)
    /\ lastAdded # <<>> => (recentSearches # <<>> /\ recentSearches[1] = lastAdded[1].query)
    /\ loadedHistory(storedHistory) = recentSearches

\* C30 amended: at most 6 entries, no duplicates, the most recently added
\* query first unless it has been removed since it was added, the stored
\* copy equal to the state.
C30_History ==
    /\ Len(recentSearches) <= MaxHistory
    /\ noDuplicates(recentSearches)
    /\ (lastAdded # <<>> /\ ~lastAdded[1].removed) =>
          (recentSearches # <<>> /\ recentSearches[1] = lastAdded[1].query)
    /\ loadedHistory(storedHistory) = recentSearches

\* C30 witness: a query was added to a full history, which dropped the
\* oldest entry, and was then removed: five entries are left and stored
C30_Witness ==
    /\ Len(recentSearches) = MaxHistory - 1
    /\ lastAdded # <<>> /\ lastAdded[1].removed
    /\ \A k \in 1..Len(recentSearches) : recentSearches[k] # lastAdded[1].query
    /\ loadedHistory(storedHistory) = recentSearches

\* ----------------------------------------------------------------- C26
\* C26: in every state in which an export started by handleDownloadPDF is
\* in flight, exportStatus is 'loading' (neither the timer of an earlier
\* export nor the settling of another export has changed it).
C26_LoadingWhileInFlight == inFlight # {} => exportStatus = "loading"

\* the same when a Button with isLoading set cannot be clicked
C26_LoadingWhenLoadingDisables == loadingDisables => C26_LoadingWhileInFlight

\* ----------------------------------------------------------------- C27
\* the elements of a paper section
SectionKinds ==
    {"paperTitle", "analysisTitle", "authors", "citeBox", "citeLabel", "citeStatus", "citeText", "citeLink",
     "tags", "summaryHeading", "summaryLine", "deepHeading", "sourceLink"}

\* C27: in both exports, every element of a paper section drawn so far is
\* at a vertical position below the page height of 280.
C27_SectionBelowPageHeight ==
    \A k \in OpIdx : ops[k].op \in SectionKinds => ops[k].y < pageHeight

====
